---- MODULE Spec2Model ----
(***************************************************************************)
(* The memory subsystem of rvemu-baremetal.js (class Memory and its        *)
(* regions, src/src/exception.ts lines 196-854) as a state machine.        *)
(*                                                                         *)
(* A Memory is its three constructor parameters and the ordered list       *)
(* memoryRegions.  A region is a record; a NormalMemoryRegion carries its  *)
(* byte buffer memBackend, an MMIO region has no buffer of its own (its    *)
(* read and write belong to the device).  Every public method is an        *)
(* operator from the list before the call to the list after it together    *)
(* with the error the call raised, and one action applies it.              *)
(*                                                                         *)
(* Further down: the regions used on their own (RegionSpec,                *)
(* RegionPairSpec), the instruction decoder of                             *)
(* src/src/core/execution.ts (DecoderSpec), the register file              *)
(* (RegFileSpec) and the core (CoreSpec, ExecUnitsSpec).                   *)
(***************************************************************************)
EXTENDS Integers, Sequences, FiniteSets, TLC

VARIABLES
    memoryStart,            \* Memory.memoryStart
    memorySize,             \* Memory.memorySize
    defaultMemRegionSize,   \* Memory.defaultMemRegionSize
    memoryRegions,          \* Memory.memoryRegions
    lastCall,               \* the last public call: its arguments and outcome
    nMut,                   \* number of calls so far that changed memoryRegions
    regionA,                \* a region used on its own, the receiver of the calls
    regionB,                \* a second region, the argument of merge and the tests
    regionCall,             \* the last call on the two regions and its outcome
    nOps,                   \* number of calls so far that changed regionA or regionB
    inst,                   \* the RVInst the decoder built last, or its error
    decodeCall,             \* the decoder and the arguments of its last decode
    intRegFile,             \* the register file (RV32ICore.intRegFile in the core)
    regFileCall,            \* the last call on the register file and its outcome
    nRegOps,                \* number of calls so far that changed the register file
    execUnits,              \* RV32ICore.execUnits
    coreCall,               \* the last call on the core and its outcome
    program                 \* the last word the driver stored for the core

vars == <<memoryStart, memorySize, defaultMemRegionSize, memoryRegions, lastCall, nMut,
          regionA, regionB, regionCall, nOps, inst, decodeCall,
          intRegFile, regFileCall, nRegOps, execUnits, coreCall, program>>

\* the variables of the two free-standing regions, and those of the Memory
regionVars == <<regionA, regionB, regionCall, nOps>>
memoryVars == <<memoryStart, memorySize, defaultMemRegionSize, memoryRegions, lastCall, nMut>>
\* those of the decoder, of the register file and of the core
decoderVars == <<inst, decodeCall>>
regFileVars == <<intRegFile, regFileCall, nRegOps>>
coreVars == <<execUnits, coreCall, program>>

(***************************************************************************)
(* Bounds of the exploration.                                              *)
(***************************************************************************)
\* addresses 0 .. MaxAddr are used as call arguments
MaxAddr == 12
\* sizes 1 .. MaxRegionSize are used for the regions handed to addMemoryRegion
MaxRegionSize == 5
\* calls that change the region list, per behaviour
MaxMut == 2

\* The (memoryStart, memorySize, defaultMemRegionSize) triples the Memory is
\* constructed with: the default region size is a power of two and the other
\* two are multiples of it, as the tests construct it.
Configs ==
    { <<0, 8, 4>>, <<4, 4, 4>>, <<8, 8, 4>> }

Addrs == 0 .. MaxAddr
\* access sizes offered to read and write: the four legal widths and the
\* sizes 0, 3 and 16
AccessSizes == {0, 1, 2, 3, 4, 8, 16}
\* first byte of a payload; byte i of the payload is base + i
PayloadBases == {1}
\* bytes an MMIO device may answer a read with
DeviceBytes == {0, 170}

Payload(size, base) == [i \in 1 .. size |-> base + i - 1]

Zeros(n) == [i \in 1 .. n |-> 0]

NoError == "none"
MemoryError == "MemoryError"
MemoryRegionError == "MemoryRegionError"

(***************************************************************************)
(* Bitwise AND of two naturals (the bigint/number operator &).             *)
(***************************************************************************)
RECURSIVE BitAnd(_, _)
BitAnd(a, b) ==
    IF a = 0 \/ b = 0 THEN 0
    ELSE (a % 2) * (b % 2) + 2 * BitAnd(a \div 2, b \div 2)

(***************************************************************************)
(* Regions                                                                 *)
(***************************************************************************)
\* new NormalMemoryRegion(_start, _size): resizable, not relocatable,
\* mergeable, zero-filled buffer
NormalMemoryRegion(start, size) ==
    [kind |-> "normal", regionStart |-> start, regionSize |-> size,
     resizable |-> TRUE, relocatable |-> FALSE, mergeable |-> TRUE,
     memBackend |-> Zeros(size)]

\* a concrete BaseMMIOMemoryRegion: no capability, no buffer in the emulator
MMIOMemoryRegion(start, size) ==
    [kind |-> "mmio", regionStart |-> start, regionSize |-> size,
     resizable |-> FALSE, relocatable |-> FALSE, mergeable |-> FALSE,
     memBackend |-> <<>>]

\* the BaseMemoryRegion constructor throws MemoryRegionError
RegionCtorThrows(start, size) == start < 0 \/ size <= 0

\* a test that compares the start addresses only
isLowerThanByStart(this, other) == this.regionStart <= other.regionStart

\* a test that asks for a gap between the two regions
isHigherThanStrict(this, other) ==
    this.regionStart > other.regionStart + other.regionSize

\* a test that holds when the two regions touch at either end
isAlignEither(this, other) ==
    \/ this.regionStart = other.regionStart + other.regionSize
    \/ other.regionStart = this.regionStart + this.regionSize

\* a test for which regions that touch overlap
isOverlapClosed(this, other) ==
    /\ this.regionStart <= other.regionStart + other.regionSize
    /\ other.regionStart <= this.regionStart + this.regionSize

isOverlap(this, other) ==
    LET this_regionStart == this.regionStart
        this_regionEnd == this.regionStart + this.regionSize
        other_regionStart == other.regionStart
        other_regionEnd == other.regionStart + other.regionSize
    IN  \/ (this_regionStart < other_regionEnd /\ this_regionStart >= other_regionStart)
        \/ (this_regionEnd <= other_regionEnd /\ this_regionEnd > other_regionStart)
        \/ (other_regionStart < this_regionEnd /\ other_regionStart >= this_regionStart)
        \/ (other_regionEnd <= this_regionEnd /\ other_regionEnd > this_regionStart)

isLowerThan(this, other) ==
    this.regionStart + this.regionSize <= other.regionStart

isHigherThan(this, other) ==
    this.regionStart >= other.regionStart + other.regionSize

isAddressHigher(this, address) ==
    address >= this.regionStart + this.regionSize

isAddressLower(this, address) ==
    address < this.regionStart

isAlignLower(this, other) ==
    this.regionStart = other.regionStart + other.regionSize

isAlignHigher(this, other) == isAlignLower(other, this)

isValidAccess(this, address, size) ==
    LET accessStart == address - this.regionStart
        accessEnd == accessStart + size
    IN  ~(accessStart < 0 \/ accessEnd < 0 \/ accessEnd >= this.regionSize)

\* a fill that stores the data last byte first
BufferFillReversed(buf, data, offset, size) ==
    [i \in 1 .. Len(buf) |->
        IF i > offset /\ i <= offset + size /\ Len(data) > 0
        THEN data[Len(data) - ((i - offset - 1) % Len(data))]
        ELSE buf[i]]

\* a fill that runs on to the end of the buffer
BufferFillToEnd(buf, data, offset, size) ==
    [i \in 1 .. Len(buf) |->
        IF i > offset /\ Len(data) > 0
        THEN data[((i - offset - 1) % Len(data)) + 1]
        ELSE buf[i]]

\* Buffer.fill(data, offset, offset + size): data repeated over the range
BufferFill(buf, data, offset, size) ==
    [i \in 1 .. Len(buf) |->
        IF i > offset /\ i <= offset + size /\ Len(data) > 0
        THEN data[((i - offset - 1) % Len(data)) + 1]
        ELSE buf[i]]

\* NormalMemoryRegion.read: [err, data]
NormalRead(this, address, size) ==
    IF ~isValidAccess(this, address, size)
    THEN [err |-> MemoryRegionError, data |-> <<>>]
    ELSE LET offset == address - this.regionStart
         IN  [err |-> NoError,
              data |-> [i \in 1 .. size |-> this.memBackend[offset + i]]]

\* NormalMemoryRegion.write: [err, region]
NormalWrite(this, address, size, data) ==
    IF ~isValidAccess(this, address, size)
    THEN [err |-> MemoryRegionError, region |-> this]
    ELSE LET offset == address - this.regionStart
         IN  [err |-> NoError,
              region |-> [this EXCEPT
                  !.memBackend = BufferFill(this.memBackend, data, offset, size)]]

\* region.read of either variant; dev is the byte the device answers with
RegionRead(this, address, size, dev) ==
    IF this.kind = "normal" THEN NormalRead(this, address, size)
    ELSE [err |-> NoError, data |-> [i \in 1 .. size |-> dev]]

\* region.write of either variant; a device write changes nothing in the emulator
RegionWrite(this, address, size, data) ==
    IF this.kind = "normal" THEN NormalWrite(this, address, size, data)
    ELSE [err |-> NoError, region |-> this]

\* a resize that also shrinks, cutting the buffer at newSize
resizeAlsoShrinks(this, newSize) ==
    IF this.kind = "mmio" \/ newSize < 0 THEN [ok |-> FALSE, region |-> this]
    ELSE [ok |-> TRUE,
          region |-> [this EXCEPT
              !.memBackend = [i \in 1 .. newSize |->
                  IF i <= Len(this.memBackend) THEN this.memBackend[i] ELSE 0],
              !.regionSize = newSize]]

\* resize: [ok, region]
resize(this, newSize) ==
    IF this.kind = "mmio" THEN [ok |-> FALSE, region |-> this]
    ELSE IF newSize < 0 \/ newSize < this.regionSize
    THEN [ok |-> FALSE, region |-> this]
    ELSE [ok |-> TRUE,
          region |-> [this EXCEPT
              !.memBackend = [i \in 1 .. newSize |->
                  IF i <= Len(this.memBackend) THEN this.memBackend[i] ELSE 0],
              !.regionSize = newSize]]

\* expandRegion(increment): [ok, region]
expandRegion(this, increment) == resize(this, this.regionSize + increment)

\* shrinkRegion(decrement): [ok, region]
shrinkRegion(this, decrement) == resize(this, this.regionSize - decrement)

\* relocate(newStartAddress): [ok, region]
relocate(this, newStartAddress) ==
    IF ~this.relocatable THEN [ok |-> FALSE, region |-> this]
    ELSE [ok |-> TRUE, region |-> [this EXCEPT !.regionStart = newStartAddress]]

\* a helper that puts the other region's data in front of this region's
mergeHelperPrepend(this, otherData) ==
    IF this.kind = "mmio" THEN [ok |-> FALSE, region |-> this]
    ELSE LET buf == otherData \o this.memBackend
         IN  [ok |-> TRUE,
              region |-> [this EXCEPT !.memBackend = buf, !.regionSize = Len(buf)]]

\* _mergeHelper(otherData): [ok, region]
mergeHelper(this, otherData) ==
    IF this.kind = "mmio" THEN [ok |-> FALSE, region |-> this]
    ELSE LET buf == this.memBackend \o otherData
         IN  [ok |-> TRUE,
              region |-> [this EXCEPT !.memBackend = buf, !.regionSize = Len(buf)]]

\* merge(other): [ret, err, region]; ret is the boolean returned
merge(this, other) ==
    IF ~this.mergeable \/ ~other.mergeable
    THEN [ret |-> FALSE, err |-> NoError, region |-> this]
    ELSE LET otherData == other.memBackend
             h == mergeHelper(this, otherData)
         IN  IF ~h.ok
             THEN [ret |-> FALSE, err |-> MemoryRegionError, region |-> this]
             ELSE [ret |-> TRUE, err |-> NoError, region |-> h.region]

(***************************************************************************)
(* Memory                                                                  *)
(***************************************************************************)
isRegionValid(region) ==
    LET regionAddressRangeValid ==
            ~((region.regionStart < memorySize) \/ (region.regionSize > memorySize))
        defaultSizeMask == defaultMemRegionSize - 1
        regionAlignedDefaultSize == BitAnd(region.regionStart, defaultSizeMask) = 0
    IN  regionAddressRangeValid /\ regionAlignedDefaultSize

\* the check without its address test
isAccessAlignedSizeOnly(address, size) ==
    (size # 0) /\ BitAnd(size, size - 1) = 0

isAccessAligned(address, size) ==
    LET isSizePowerOf2 == (size # 0) /\ BitAnd(size, size - 1) = 0
    IN  isSizePowerOf2 /\ BitAnd(address, size - 1) = 0

\* findRegion: the index of the first region that accepts the access, 0 when
\* the loop ends without one (the method then throws MemoryRegionError)
findRegion(regions, address, size) ==
    LET hits == {i \in 1 .. Len(regions) : isValidAccess(regions[i], address, size)}
    IN  IF hits = {} THEN 0 ELSE CHOOSE i \in hits : \A j \in hits : i <= j

\* memoryRegions.indexOf(region)
indexOf(regions, region) ==
    CHOOSE i \in 1 .. Len(regions) :
        /\ regions[i] = region
        /\ \A j \in 1 .. (i - 1) : regions[j] # region

\* an insertion that ignores the position found: memoryRegions.push(region)
splicePush(regions, index, region) == Append(regions, region)

\* memoryRegions.splice(index, 0, region), index counted from 1
splice(regions, index, region) ==
    SubSeq(regions, 1, index - 1) \o <<region>> \o SubSeq(regions, index, Len(regions))

\* the for loop of addMemoryRegion from position index on:
\* "throw" (overlap), "return" (merged, nothing inserted) or "insert" at at
RECURSIVE addScan(_, _, _)
addScan(regions, region, index) ==
    IF index > Len(regions) THEN [how |-> "insert", at |-> index]
    ELSE LET currentRegion == regions[index]
         IN  IF isOverlap(currentRegion, region)
             THEN [how |-> "throw", at |-> index]
             ELSE IF isAlignLower(currentRegion, region)
             THEN LET m == merge(region, currentRegion)
                  IN  IF m.err # NoError THEN [how |-> "throw", at |-> index]
                      ELSE IF m.ret THEN [how |-> "return", at |-> index]
                      ELSE [how |-> "insert", at |-> index]
             ELSE IF isHigherThan(currentRegion, region)
             THEN [how |-> "insert", at |-> index]
             ELSE addScan(regions, region, index + 1)

\* addMemoryRegion(region): [err, regions]
addMemoryRegion(regions, region) ==
    IF ~isRegionValid(region)
    THEN [err |-> MemoryRegionError, regions |-> regions]
    ELSE IF Len(regions) = 0
    THEN [err |-> NoError, regions |-> Append(regions, region)]
    ELSE LET scan == addScan(regions, region, 1)
         IN  CASE scan.how = "throw" -> [err |-> MemoryRegionError, regions |-> regions]
               [] scan.how = "return" -> [err |-> NoError, regions |-> regions]
               [] OTHER -> [err |-> NoError, regions |-> splice(regions, scan.at, region)]

\* a read that allocates the default region on a miss, as write does
MemoryReadAllocates(regions, address, size, dev) ==
    IF ~isAccessAligned(address, size)
    THEN [err |-> MemoryError, data |-> <<>>, regions |-> regions]
    ELSE LET index == findRegion(regions, address, size)
         IN  IF index = 0
             THEN [err |-> MemoryRegionError, data |-> <<>>,
                   regions |-> addMemoryRegion(regions,
                       NormalMemoryRegion(address - (address % defaultMemRegionSize),
                                          defaultMemRegionSize)).regions]
             ELSE LET r == RegionRead(regions[index], address, size, dev)
                  IN  [err |-> r.err, data |-> r.data, regions |-> regions]

\* read(address, size): [err, data, regions]
MemoryRead(regions, address, size, dev) ==
    IF ~isAccessAligned(address, size)
    THEN [err |-> MemoryError, data |-> <<>>, regions |-> regions]
    ELSE LET index == findRegion(regions, address, size)
         IN  IF index = 0
             THEN [err |-> MemoryRegionError, data |-> <<>>, regions |-> regions]
             ELSE LET r == RegionRead(regions[index], address, size, dev)
                  IN  [err |-> r.err, data |-> r.data, regions |-> regions]

\* the mask applied to the address at the head of write's catch block
regionAlignMask == defaultMemRegionSize - 1

\* the loop of write that looks for the closest region ending below address:
\* the index of closestRegion (0 for undefined) after the regions from i on
RECURSIVE closestScan(_, _, _, _, _)
closestScan(regions, address, i, closest, minDistance) ==
    IF i > Len(regions) THEN closest
    ELSE LET region == regions[i]
             regionEnd == region.regionStart + region.regionSize - 1
             distance == address - regionEnd
         IN  IF isAddressHigher(region, address) /\ distance < minDistance
             THEN closestScan(regions, address, i + 1, i, distance)
             ELSE closestScan(regions, address, i + 1, closest, minDistance)

\* new NormalMemoryRegion(start, size); region.write(address, size, data);
\* this.addMemoryRegion(region): [err, regions]
writeNewRegion(regions, start, size, address, accSize, data) ==
    IF RegionCtorThrows(start, size)
    THEN [err |-> MemoryRegionError, regions |-> regions]
    ELSE LET w == NormalWrite(NormalMemoryRegion(start, size), address, accSize, data)
         IN  IF w.err # NoError
             THEN [err |-> w.err, regions |-> regions]
             ELSE addMemoryRegion(regions, w.region)

\* an inner try block that substitutes the new region for the region found
\* whether or not that region is mergeable
writeBelowRegionAlwaysMerges(regions, regionAlignedAddress, address, size, data) ==
    LET newRegionEnd == regionAlignedAddress + defaultMemRegionSize
        index == findRegion(regions, newRegionEnd, 1)
    IN  IF index = 0
        THEN [err |-> MemoryRegionError, regions |-> regions]
        ELSE LET region == regions[index]
                 newRegionSize == region.regionStart - regionAlignedAddress
             IN  IF RegionCtorThrows(regionAlignedAddress, newRegionSize)
                 THEN [err |-> MemoryRegionError, regions |-> regions]
                 ELSE LET w == NormalWrite(
                                  NormalMemoryRegion(regionAlignedAddress, newRegionSize),
                                  address, size, data)
                          m == merge(w.region, region)
                      IN  IF w.err # NoError
                          THEN [err |-> w.err, regions |-> regions]
                          ELSE [err |-> NoError,
                                regions |-> [regions EXCEPT
                                    ![indexOf(regions, region)] = m.region]]

\* the inner try block of write (no closest region): [err, regions]; any
\* error sends write to the inner catch block
writeBelowRegion(regions, regionAlignedAddress, address, size, data) ==
    LET newRegionEnd == regionAlignedAddress + defaultMemRegionSize
        index == findRegion(regions, newRegionEnd, 1)
    IN  IF index = 0
        THEN [err |-> MemoryRegionError, regions |-> regions]
        ELSE LET region == regions[index]
                 newRegionSize == region.regionStart - regionAlignedAddress
             IN  IF RegionCtorThrows(regionAlignedAddress, newRegionSize)
                 THEN [err |-> MemoryRegionError, regions |-> regions]
                 ELSE LET w == NormalWrite(
                                  NormalMemoryRegion(regionAlignedAddress, newRegionSize),
                                  address, size, data)
                      IN  IF w.err # NoError
                          THEN [err |-> w.err, regions |-> regions]
                          ELSE IF region.mergeable
                          THEN LET m == merge(w.region, region)
                               IN  IF m.err # NoError
                                   THEN [err |-> m.err, regions |-> regions]
                                   ELSE [err |-> NoError,
                                         regions |-> [regions EXCEPT
                                             ![indexOf(regions, region)] = m.region]]
                          ELSE addMemoryRegion(regions, w.region)

\* an else branch that does not ask whether the closest region is resizable
writeResizeAnyRegion(regions, closest, regionAlignedAddress, address, size, data) ==
    LET closestRegion == regions[closest]
        newRegionEnd == regionAlignedAddress + defaultMemRegionSize
        newRegionSize == newRegionEnd - closestRegion.regionStart
        resized == resize(closestRegion, newRegionSize).region
        w == RegionWrite(resized, address, size, data)
    IN  [err |-> w.err, regions |-> [regions EXCEPT ![closest] = w.region]]

\* the else branch of write (a closest region exists): [err, regions]
writeResize(regions, closest, regionAlignedAddress, address, size, data) ==
    LET closestRegion == regions[closest]
    IN  IF closestRegion.resizable
        THEN LET newRegionEnd == regionAlignedAddress + defaultMemRegionSize
                 newRegionSize == newRegionEnd - closestRegion.regionStart
                 resized == resize(closestRegion, newRegionSize).region
                 w == RegionWrite(resized, address, size, data)
             IN  [err |-> w.err, regions |-> [regions EXCEPT ![closest] = w.region]]
        ELSE [err |-> MemoryError, regions |-> regions]

\* the catch block of write: write allocation
writeAllocate(regions, address, size, data) ==
    LET regionAlignedAddress == BitAnd(address, regionAlignMask)
    IN  IF Len(regions) = 0
        THEN writeNewRegion(regions, regionAlignedAddress, defaultMemRegionSize,
                            address, size, data)
        ELSE LET closest == closestScan(regions, address, 1, 0, defaultMemRegionSize)
             IN  IF closest = 0
                 THEN LET t == writeBelowRegion(regions, regionAlignedAddress,
                                                address, size, data)
                      IN  IF t.err = NoError THEN t
                          ELSE writeNewRegion(regions, regionAlignedAddress,
                                              defaultMemRegionSize, address, size, data)
                 ELSE writeResize(regions, closest, regionAlignedAddress,
                                  address, size, data)

\* write(address, size, data): [err, regions]
MemoryWrite(regions, address, size, data) ==
    IF ~isAccessAligned(address, size)
    THEN [err |-> MemoryError, regions |-> regions]
    ELSE LET index == findRegion(regions, address, size)
             w == RegionWrite(regions[index], address, size, data)
         IN  IF index # 0 /\ w.err = NoError
             THEN [err |-> NoError, regions |-> [regions EXCEPT ![index] = w.region]]
             ELSE writeAllocate(regions, address, size, data)

(***************************************************************************)
(* The state machine: a Memory is constructed, then its public methods are *)
(* called in any order with any arguments.                                 *)
(***************************************************************************)
\* lastCall while no call is being reported
NoCall == [op |-> "none"]

\* no free-standing region has been constructed
NoRegion == [kind |-> "none"]

\* the decoder has built nothing
NoInst == [err |-> "idle"]

\* the free-standing regions are not in use
RegionIdle ==
    /\ regionA = NoRegion
    /\ regionB = NoRegion
    /\ regionCall = NoCall
    /\ nOps = 0

\* no register file has been constructed
NoRegFile == [width |-> 0]

\* no word has been stored for the core
NoProgram == [err |-> "idle"]

\* the decoder is not in use
DecoderIdle ==
    /\ inst = NoInst
    /\ decodeCall = NoCall

\* no register file is in use
RegFileIdle ==
    /\ intRegFile = NoRegFile
    /\ regFileCall = NoCall
    /\ nRegOps = 0

\* no core is in use
CoreIdle ==
    /\ execUnits = <<>>
    /\ coreCall = NoCall
    /\ program = NoProgram

Init ==
    /\ \E c \in Configs :
        /\ memoryStart = c[1]
        /\ memorySize = c[2]
        /\ defaultMemRegionSize = c[3]
    /\ memoryRegions = <<>>
    /\ lastCall = NoCall
    /\ nMut = 0
    /\ RegionIdle
    /\ DecoderIdle
    /\ RegFileIdle
    /\ CoreIdle

\* the list after a call is taken over; a call that changes it counts
Commit(regions) ==
    /\ lastCall = NoCall
    /\ (regions # memoryRegions => nMut < MaxMut)
    /\ memoryRegions' = regions
    /\ nMut' = IF regions # memoryRegions THEN nMut + 1 ELSE nMut
    /\ UNCHANGED <<memoryStart, memorySize, defaultMemRegionSize, regionVars,
                   decoderVars, regFileVars, coreVars>>

\* the driver calls memory.addMemoryRegion(region)
AddRegion ==
    \E kind \in {"normal", "mmio"}, start \in Addrs, size \in 1 .. MaxRegionSize :
        LET region == IF kind = "normal" THEN NormalMemoryRegion(start, size)
                      ELSE MMIOMemoryRegion(start, size)
            res == addMemoryRegion(memoryRegions, region)
        IN  /\ Commit(res.regions)
            /\ lastCall' = [op |-> "addMemoryRegion", region |-> region,
                            err |-> res.err, before |-> memoryRegions]

\* the driver calls memory.write(address, size, data)
Write ==
    \E address \in Addrs, size \in AccessSizes, base \in PayloadBases :
        LET data == Payload(size, base)
            res == MemoryWrite(memoryRegions, address, size, data)
        IN  /\ Commit(res.regions)
            /\ lastCall' = [op |-> "write", address |-> address, size |-> size,
                            data |-> data, err |-> res.err, before |-> memoryRegions]

\* the driver calls memory.read(address, size)
Read ==
    \E address \in Addrs, size \in AccessSizes, dev \in DeviceBytes :
        LET res == MemoryRead(memoryRegions, address, size, dev)
        IN  /\ Commit(res.regions)
            /\ lastCall' = [op |-> "read", address |-> address, size |-> size,
                            data |-> res.data, err |-> res.err, before |-> memoryRegions]

\* the legal access widths
ValidAccessSizes == {1, 2, 4, 8}

\* the driver (or a test) calls memory.findRegion(address, size)
FindRegion ==
    \E address \in Addrs, size \in ValidAccessSizes :
        LET index == findRegion(memoryRegions, address, size)
        IN  /\ Commit(memoryRegions)
            /\ lastCall' = [op |-> "findRegion", address |-> address, size |-> size,
                            index |-> index,
                            err |-> IF index = 0 THEN MemoryRegionError ELSE NoError,
                            before |-> memoryRegions]

\* the call has returned (or thrown) to the driver, which goes on
Return ==
    /\ lastCall # NoCall
    /\ lastCall' = NoCall
    /\ UNCHANGED <<memoryStart, memorySize, defaultMemRegionSize, memoryRegions, nMut,
                   regionVars, decoderVars, regFileVars, coreVars>>

Next == AddRegion \/ Write \/ Read \/ FindRegion \/ Return

Spec == Init /\ [][Next]_vars

\* a Memory that is only written and read: no region is ever added by hand
WriteOnlyNext == Write \/ Read \/ Return

WriteOnlySpec == Init /\ [][WriteOnlyNext]_vars

\* the byte the driver stores at the start of a region before it adds it
FirstByte == <<9>>

\* the driver constructs a NormalMemoryRegion, writes its first byte with
\* region.write and calls memory.addMemoryRegion(region)
AddWrittenRegion ==
    \E start \in Addrs, size \in 2 .. MaxRegionSize :
        LET region == NormalWrite(NormalMemoryRegion(start, size), start, 1,
                                  FirstByte).region
            res == addMemoryRegion(memoryRegions, region)
        IN  /\ Commit(res.regions)
            /\ lastCall' = [op |-> "addMemoryRegion", region |-> region,
                            err |-> res.err, before |-> memoryRegions]

\* a Memory whose regions may hold data when they are added: regions are
\* added, empty or written, and the memory is written
AllocNext == AddRegion \/ AddWrittenRegion \/ Write \/ Return

AllocSpec == Init /\ [][AllocNext]_vars

(***************************************************************************)
(* NormalMemoryRegions on their own, outside any Memory, as the region      *)
(* tests use them.  A region is constructed and, possibly, filled by       *)
(* one-byte writes; then its methods are called in any order with any      *)
(* arguments.  RegionSpec has the single region regionA and its read,      *)
(* write, expandRegion, shrinkRegion and relocate; RegionPairSpec has      *)
(* regionA and regionB, either being the receiver of merge and of the      *)
(* comparisons and the other one their argument.                           *)
(***************************************************************************)
\* calls that change a region, per behaviour
MaxOps == 1

\* start addresses the regions are constructed with
RegionStarts == {0, 4}
\* addresses of the accesses to a region: from 0 to beyond any region's end
RegionAddrs == 0 .. (MaxRegionSize + 5)
\* first byte of the payloads written to a region by the calls
RegionPayloadBases == {1}
\* first byte of the pattern a region is filled with before the calls
FillBase == 33
\* arguments of expandRegion and shrinkRegion
Increments == (0 - 1) .. 2

\* region after region.write(regionStart + i, 1, [FillBase + i]) for every
\* offset i from `from` on; a write that throws leaves the region as it is
RECURSIVE FillFrom(_, _)
FillFrom(region, from) ==
    IF from >= region.regionSize THEN region
    ELSE FillFrom(NormalWrite(region, region.regionStart + from, 1,
                              <<FillBase + from>>).region,
                  from + 1)

\* the regions a test starts from: as constructed, or filled
StartRegions ==
    UNION { { NormalMemoryRegion(s, n), FillFrom(NormalMemoryRegion(s, n), 0) } :
            s \in RegionStarts, n \in 1 .. MaxRegionSize }

\* no Memory has been constructed
MemoryIdle ==
    /\ memoryStart = 0
    /\ memorySize = 0
    /\ defaultMemRegionSize = 0
    /\ memoryRegions = <<>>
    /\ lastCall = NoCall
    /\ nMut = 0

RegionInit ==
    /\ regionA \in StartRegions
    /\ regionB = NoRegion
    /\ regionCall = NoCall
    /\ nOps = 0
    /\ MemoryIdle
    /\ DecoderIdle
    /\ RegFileIdle
    /\ CoreIdle

RegionPairInit ==
    /\ regionA \in StartRegions
    /\ regionB \in StartRegions
    /\ regionCall = NoCall
    /\ nOps = 0
    /\ MemoryIdle
    /\ DecoderIdle
    /\ RegFileIdle
    /\ CoreIdle

\* the receiver of a call and its argument
Receiver(target) == IF target = "a" THEN regionA ELSE regionB
Argument(target) == IF target = "a" THEN regionB ELSE regionA

\* the receiver after the call is taken over; a call that changes it counts
RegionCommit(target, after) ==
    /\ regionCall = NoCall
    /\ (after # Receiver(target) => nOps < MaxOps)
    /\ regionA' = IF target = "a" THEN after ELSE regionA
    /\ regionB' = IF target = "b" THEN after ELSE regionB
    /\ nOps' = IF after # Receiver(target) THEN nOps + 1 ELSE nOps
    /\ UNCHANGED <<memoryVars, decoderVars, regFileVars, coreVars>>

\* region.write(address, size, data)
RegionWriteCall ==
    \E address \in RegionAddrs, size \in ValidAccessSizes,
       base \in RegionPayloadBases :
        LET this == regionA
            data == Payload(size, base)
            res == NormalWrite(this, address, size, data)
        IN  /\ RegionCommit("a", res.region)
            /\ regionCall' = [op |-> "write", this |-> this, address |-> address,
                              size |-> size, data |-> data, err |-> res.err,
                              after |-> res.region]

\* region.read(address, size)
RegionReadCall ==
    \E address \in RegionAddrs, size \in ValidAccessSizes :
        LET this == regionA
            res == NormalRead(this, address, size)
        IN  /\ RegionCommit("a", this)
            /\ regionCall' = [op |-> "read", this |-> this, address |-> address,
                              size |-> size, data |-> res.data, err |-> res.err,
                              after |-> this]

\* region.merge(other)
RegionMergeCall ==
    \E target \in {"a", "b"} :
        LET this == Receiver(target)
            other == Argument(target)
            res == merge(this, other)
        IN  /\ RegionCommit(target, res.region)
            /\ regionCall' = [op |-> "merge", this |-> this, other |-> other,
                              ret |-> res.ret, err |-> res.err, after |-> res.region]

\* region.expandRegion(k), region.shrinkRegion(k) and region.relocate(x)
RegionResizeCall ==
    \E op \in {"expandRegion", "shrinkRegion", "relocate"},
       k \in Increments, x \in RegionStarts :
        LET this == regionA
            res == CASE op = "expandRegion" -> expandRegion(this, k)
                     [] op = "shrinkRegion" -> shrinkRegion(this, k)
                     [] OTHER -> relocate(this, x)
        IN  /\ RegionCommit("a", res.region)
            /\ regionCall' = [op |-> op, this |-> this,
                              arg |-> IF op = "relocate" THEN x ELSE k,
                              ret |-> res.ok, err |-> NoError, after |-> res.region]

\* the tests of one region against the other, and back
RegionCompareCall ==
    \E target \in {"a", "b"} :
        LET this == Receiver(target)
            other == Argument(target)
        IN  /\ RegionCommit(target, this)
            /\ regionCall' = [op |-> "compare", this |-> this, other |-> other,
                              isOverlap |-> isOverlap(this, other),
                              isLowerThan |-> isLowerThan(this, other),
                              isHigherThan |-> isHigherThan(this, other),
                              isAlignLower |-> isAlignLower(this, other),
                              isAlignHigher |-> isAlignHigher(this, other),
                              otherIsLowerThan |-> isLowerThan(other, this),
                              otherIsHigherThan |-> isHigherThan(other, this),
                              err |-> NoError, after |-> this]

\* the call has returned (or thrown) to its caller
RegionReturn ==
    /\ regionCall # NoCall
    /\ regionCall' = NoCall
    /\ UNCHANGED <<regionA, regionB, nOps, memoryVars, decoderVars, regFileVars, coreVars>>

RegionNext ==
    \/ RegionWriteCall
    \/ RegionReadCall
    \/ RegionResizeCall
    \/ RegionReturn

RegionSpec == RegionInit /\ [][RegionNext]_vars

RegionPairNext ==
    \/ RegionMergeCall
    \/ RegionCompareCall
    \/ RegionReturn

RegionPairSpec == RegionPairInit /\ [][RegionPairNext]_vars

(***************************************************************************)
(* The decoder (RVDecoder.decode and the RVInst constructor,               *)
(* src/src/core/execution.ts lines 96-159, with getNumberBitAt of the      *)
(* utilities).  A 32-bit JavaScript number is the function from bit        *)
(* position 0 .. 31 to its bit, so that >>>, <<, & and | are computed on   *)
(* 32 bits as the language does, shift counts being taken modulo 32.       *)
(***************************************************************************)
BitPositions == 0 .. 31

RECURSIVE Pow2(_)
Pow2(n) == IF n = 0 THEN 1 ELSE 2 * Pow2(n - 1)

\* the 32-bit word of a natural below 2^31
Word(n) == [i \in BitPositions |-> (n \div Pow2(i)) % 2]

\* 0xFFFFFFFF
AllOnes == [i \in BitPositions |-> 1]

\* the signed 32-bit integer the operators & | << return for a word
RECURSIVE LowBitsValue(_, _)
LowBitsValue(w, i) ==
    IF i > 30 THEN 0 ELSE w[i] * Pow2(i) + LowBitsValue(w, i + 1)

ToInt32(w) ==
    IF w[31] = 0 THEN LowBitsValue(w, 0)
    ELSE (LowBitsValue(w, 0) - 2147483647) - 1

\* w >>> n
UShr(w, n) ==
    LET count == n % 32
    IN  [i \in BitPositions |-> IF i + count <= 31 THEN w[i + count] ELSE 0]

\* w << n
Shl(w, n) ==
    LET count == n % 32
    IN  [i \in BitPositions |-> IF i - count >= 0 THEN w[i - count] ELSE 0]

\* w & v and w | v
AndW(w, v) == [i \in BitPositions |-> w[i] * v[i]]

OrW(w, v) == [i \in BitPositions |-> IF w[i] = 1 \/ v[i] = 1 THEN 1 ELSE 0]

\* getNumberBitAt(value, start, end)
getNumberBitAt(value, start, end) ==
    LET length == end + 1 - start
    IN  AndW(UShr(value, start), UShr(AllOnes, 32 - length))

\* the read that takes the bytes as little-endian whatever it is told
getUint32LittleOnly(bytes, littleEndian) ==
    [i \in BitPositions |-> (bytes[(i \div 8) + 1] \div Pow2(i % 8)) % 2]

\* new DataView(bytes.buffer).getUint32(0, littleEndian)
getUint32(bytes, littleEndian) ==
    [i \in BitPositions |->
        LET byte == IF littleEndian THEN bytes[(i \div 8) + 1]
                    ELSE bytes[4 - (i \div 8)]
        IN  (byte \div Pow2(i % 8)) % 2]

RVIllegalInstError == "RVIllegalInstError"

\* new RVInst(_pc, _bytes, _bitWidth, littleEndian): the instruction, or the
\* error thrown by the constructor
RVInst(pc, bytes, bitWidth, littleEndian) ==
    LET encoding == getUint32(bytes, littleEndian)
        widthEncoding == getNumberBitAt(encoding, 1, 0)
        signBit == getNumberBitAt(encoding, 31, 31)
        signField == IF ToInt32(signBit) # 0 THEN AllOnes ELSE Word(0)
    IN  IF ToInt32(widthEncoding) # 3
        THEN [err |-> RVIllegalInstError, pc |-> pc, bitWidth |-> bitWidth,
              bytes |-> bytes, encoding |-> encoding]
        ELSE [err |-> NoError, pc |-> pc, bitWidth |-> bitWidth,
              bytes |-> bytes, encoding |-> encoding,
              baseOpcode |-> ToInt32(getNumberBitAt(encoding, 2, 6)),
              rd |-> ToInt32(getNumberBitAt(encoding, 7, 11)),
              funct3 |-> ToInt32(getNumberBitAt(encoding, 12, 14)),
              rs1 |-> ToInt32(getNumberBitAt(encoding, 15, 19)),
              rs2 |-> ToInt32(getNumberBitAt(encoding, 20, 24)),
              funct7 |-> ToInt32(getNumberBitAt(encoding, 25, 31)),
              imm_i |-> ToInt32(OrW(Shl(signField, 12),
                                    getNumberBitAt(encoding, 20, 31))),
              imm_s |-> ToInt32(OrW(Shl(signField, 12),
                            AndW(getNumberBitAt(encoding, 7, 11),
                                 Shl(getNumberBitAt(encoding, 25, 31), 5)))),
              imm_b |-> ToInt32(OrW(Shl(signField, 13),
                            AndW(AndW(Shl(getNumberBitAt(encoding, 31, 31), 12),
                                      Shl(getNumberBitAt(encoding, 7, 7), 11)),
                                 AndW(Shl(getNumberBitAt(encoding, 25, 30), 5),
                                      Shl(getNumberBitAt(encoding, 11, 8), 1))))),
              imm_u |-> ToInt32(Shl(getNumberBitAt(encoding, 12, 31), 12)),
              imm_j |-> ToInt32(OrW(Shl(signField, 21),
                            AndW(AndW(Shl(getNumberBitAt(encoding, 31, 31), 20),
                                      Shl(getNumberBitAt(encoding, 12, 19), 12)),
                                 AndW(Shl(getNumberBitAt(encoding, 20, 20), 11),
                                      Shl(getNumberBitAt(encoding, 21, 30), 1)))))]

\* RVDecoder.decode(_pc, _bytes) of a decoder built with the given endianness
decode(endianness, pc, bytes) == RVInst(pc, bytes, 32, endianness = "little")

\* the instruction bytes offered to the decoder, byte by byte: among them
\* 00 00 00 00, 93 00 50 00 (addi x1, x0, 5), EF 00 80 00 (jal x1, +8),
\* 73 00 00 00 (ecall) and the words 6 and 7
InstByte0 == {0, 2, 3, 6, 7, 19, 35, 99, 115, 147, 239}
InstByte1 == {0, 128, 165}
InstByte2 == {0, 80, 128, 255}
InstByte3 == {0, 6, 255}
InstBytes ==
    {<<b0, b1, b2, b3>> :
        b0 \in InstByte0, b1 \in InstByte1, b2 \in InstByte2, b3 \in InstByte3}
\* addresses the instruction is said to come from
InstPCs == {0, 256}

DecoderInit ==
    /\ DecoderIdle
    /\ MemoryIdle
    /\ RegionIdle
    /\ RegFileIdle
    /\ CoreIdle

\* new RVDecoder(_bitWidth, _endianness)
RVDecoder(bitWidth, endianness) == [bitWidth |-> bitWidth, endianness |-> endianness]

\* a decoder is built and decode(pc, bytes) is called
Decode ==
    \E endianness \in {"little", "big"}, pc \in InstPCs, bytes \in InstBytes :
        /\ inst = NoInst
        /\ inst' = decode(endianness, pc, bytes)
        /\ decodeCall' = [op |-> "decode", decoder |-> RVDecoder(32, endianness),
                          pc |-> pc, bytes |-> bytes]
        /\ UNCHANGED <<memoryVars, regionVars, regFileVars, coreVars>>

\* the caller drops the instruction (or has caught the error)
DecodeReturn ==
    /\ inst # NoInst
    /\ inst' = NoInst
    /\ decodeCall' = NoCall
    /\ UNCHANGED <<memoryVars, regionVars, regFileVars, coreVars>>

DecoderNext == Decode \/ DecodeReturn

DecoderSpec == DecoderInit /\ [][DecoderNext]_vars

(***************************************************************************)
(* The register file (BaseRegisterFile, BaseIntRegisterFile and            *)
(* IntRegFile, src/src/core/execution.ts lines 271-553).  A file is its    *)
(* constructor parameters and the byte array data, register index at the   *)
(* bytes index * byteWidth + 1 .. (index + 1) * byteWidth.  A method is an *)
(* operator from the file before the call to the error raised and the file *)
(* after it.                                                               *)
(*                                                                         *)
(* A JavaScript integer handed to or returned by a DataView accessor is    *)
(* the sequence of its 16-bit limbs, most significant first, the first     *)
(* limb carrying the sign: <<hi, lo>> is hi * 65536 + lo with lo in        *)
(* 0 .. 65535, so -1 is <<-1, 65535>> and 2^32 - 1 is <<65535, 65535>>.    *)
(* Two limbs span a 32-bit register, four a 64-bit one.                    *)
(***************************************************************************)
RegisterFileError == "RegisterFileError"
RegisterError == "RegisterError"

\* new IntRegFile(_width, _count, _endianness, _description, _pcIndex)
IntRegFile(width, count, endianness, pcIndex) ==
    [width |-> width, byteWidth |-> width \div 8, count |-> count,
     endianness |-> endianness, data |-> Zeros((count * width) \div 8),
     pcIndex |-> IF pcIndex < 0 THEN count - 1 ELSE pcIndex]

isValidIndex(this, index) == index >= 0 /\ index < this.count

\* an extension bit that is never set
msbOfUnsigned(byte, signed) == 0

\* msb = (byte & 0x80) >> 7; msb = signed ? msb : 0, byte being undefined
\* (here -1) when the incoming array is empty
msbOf(byte, signed) ==
    IF signed /\ byte >= 0 THEN (byte \div 128) % 2 ELSE 0

\* a write that keeps the leading byteWidth bytes of a longer array
writeTruncates(this, index, value, signed) ==
    IF ~isValidIndex(this, index)
    THEN [err |-> RegisterFileError, file |-> this]
    ELSE LET offset == index * this.byteWidth
         IN  [err |-> NoError,
              file |-> [this EXCEPT !.data = [i \in DOMAIN this.data |->
                  IF i > offset /\ i <= offset + this.byteWidth
                     /\ i - offset <= Len(value)
                  THEN value[i - offset] ELSE this.data[i]]]]

\* a write that tests the length of the array before the index
writeLengthFirst(this, index, value, signed) ==
    IF Len(value) > this.byteWidth
    THEN [err |-> RegisterError, file |-> this]
    ELSE writeTruncates(this, index, value, signed)

\* write(index, value, signed): [err, file]
write(this, index, value, signed) ==
    LET incomingWidth == Len(value)
        offset == index * this.byteWidth
    IN  IF ~isValidIndex(this, index)
        THEN [err |-> RegisterFileError, file |-> this]
        ELSE IF incomingWidth > this.byteWidth
        THEN [err |-> RegisterError, file |-> this]
        ELSE IF incomingWidth < this.byteWidth
        THEN IF this.endianness = "little"
             THEN LET msb == msbOf(IF incomingWidth = 0 THEN 0 - 1
                                   ELSE value[incomingWidth], signed)
                  IN  [err |-> NoError,
                       file |-> [this EXCEPT !.data = [i \in DOMAIN this.data |->
                           IF i > offset /\ i <= offset + incomingWidth
                           THEN value[i - offset]
                           ELSE IF i > offset + incomingWidth
                                   /\ i <= offset + this.byteWidth
                           THEN (IF msb = 1 THEN 255 ELSE 0)
                           ELSE this.data[i]]]]
             ELSE LET msb == msbOf(IF incomingWidth = 0 THEN 0 - 1
                                   ELSE value[1], signed)
                      offset2 == this.byteWidth - incomingWidth
                  IN  [err |-> NoError,
                       file |-> [this EXCEPT !.data = [i \in DOMAIN this.data |->
                           IF i > offset /\ i <= offset + offset2
                           THEN (IF msb = 1 THEN 255 ELSE 0)
                           ELSE IF i > offset + offset2
                                   /\ i <= offset + this.byteWidth
                           THEN value[i - offset - offset2]
                           ELSE this.data[i]]]]
        ELSE [err |-> NoError,
              file |-> [this EXCEPT !.data = [i \in DOMAIN this.data |->
                  IF i > offset /\ i <= offset + this.byteWidth
                  THEN value[i - offset] ELSE this.data[i]]]]

\* a copy in the other direction
copyRegisterToSource(this, dst, src) ==
    IF ~isValidIndex(this, dst) \/ ~isValidIndex(this, src)
    THEN [err |-> RegisterFileError, file |-> this]
    ELSE [err |-> NoError,
          file |-> [this EXCEPT !.data = [i \in DOMAIN this.data |->
              IF i > src * this.byteWidth /\ i <= (src + 1) * this.byteWidth
              THEN this.data[dst * this.byteWidth + (i - src * this.byteWidth)]
              ELSE this.data[i]]]]

\* copyRegister(dst, src): [err, file]
copyRegister(this, dst, src) ==
    IF ~isValidIndex(this, dst)
    THEN [err |-> RegisterFileError, file |-> this]
    ELSE IF ~isValidIndex(this, src)
    THEN [err |-> RegisterFileError, file |-> this]
    ELSE LET dstOffset == dst * this.byteWidth
             srcOffset == src * this.byteWidth
         IN  [err |-> NoError,
              file |-> [this EXCEPT !.data = [i \in DOMAIN this.data |->
                  IF i > dstOffset /\ i <= dstOffset + this.byteWidth
                  THEN this.data[srcOffset + (i - dstOffset)]
                  ELSE this.data[i]]]]

\* read(index): [err, data]
read(this, index) ==
    IF ~isValidIndex(this, index)
    THEN [err |-> RegisterFileError, data |-> <<>>]
    ELSE LET offset == index * this.byteWidth
         IN  [err |-> NoError,
              data |-> [i \in 1 .. this.byteWidth |-> this.data[offset + i]]]

\* ToUint32 / BigInt.asUintN(64, .) and ToInt32 / BigInt.asIntN(64, .) of a
\* number given by its limbs
ToUintN(value) == [value EXCEPT ![1] = value[1] % 65536]

ToIntN(value) ==
    LET top == value[1] % 65536
    IN  [value EXCEPT ![1] = IF top >= 32768 THEN top - 65536 ELSE top]

\* the bytes of the two's complement pattern of a number, most significant
\* first
PatternBytes(value) ==
    [i \in 1 .. 2 * Len(value) |->
        LET limb == value[(i + 1) \div 2] % 65536
        IN  IF i % 2 = 1 THEN limb \div 256 ELSE limb % 256]

\* the unsigned number whose pattern is the given bytes, most significant first
PatternNumber(bytes) ==
    [k \in 1 .. (Len(bytes) \div 2) |-> bytes[2 * k - 1] * 256 + bytes[2 * k]]

\* bytes in the other order
Reversed(bytes) == [i \in 1 .. Len(bytes) |-> bytes[Len(bytes) + 1 - i]]

\* DataView.prototype.setInt32 / setBigInt64 (byteOffset, value, littleEndian)
\* on the view of data; n is the number of bytes the accessor stores
setInt(data, n, byteOffset, value, littleEndian) ==
    LET pattern == PatternBytes(ToIntN(value))
        stored == IF littleEndian THEN Reversed(pattern) ELSE pattern
    IN  [i \in DOMAIN data |->
            IF i > byteOffset /\ i <= byteOffset + n
            THEN stored[i - byteOffset] ELSE data[i]]

\* DataView.prototype.setUint32 / setBigUint64
setUint(data, n, byteOffset, value, littleEndian) ==
    LET pattern == PatternBytes(ToUintN(value))
        stored == IF littleEndian THEN Reversed(pattern) ELSE pattern
    IN  [i \in DOMAIN data |->
            IF i > byteOffset /\ i <= byteOffset + n
            THEN stored[i - byteOffset] ELSE data[i]]

\* DataView.prototype.getUint32 / getBigUint64 (byteOffset, littleEndian)
getUint(data, n, byteOffset, littleEndian) ==
    LET stored == [i \in 1 .. n |-> data[byteOffset + i]]
    IN  PatternNumber(IF littleEndian THEN Reversed(stored) ELSE stored)

\* DataView.prototype.getInt32 / getBigInt64
getInt(data, n, byteOffset, littleEndian) ==
    ToIntN(getUint(data, n, byteOffset, littleEndian))

\* the number of bytes the accessors chosen by writeValue and readValue move
accessorBytes(this) == IF this.width = 32 THEN 4 ELSE 8

\* writeValue(index, value, signed) through baseWriteValue: [err, file]
writeValue(this, index, value, signed) ==
    IF ~isValidIndex(this, index)
    THEN [err |-> RegisterFileError, file |-> this]
    ELSE LET indexOffset == index * this.byteWidth
             littleEndian == this.endianness = "little"
         IN  [err |-> NoError,
              file |-> [this EXCEPT !.data =
                  IF signed
                  THEN setInt(this.data, accessorBytes(this), indexOffset, value,
                              littleEndian)
                  ELSE setUint(this.data, accessorBytes(this), indexOffset, value,
                               littleEndian)]]

\* a readValue that always takes the unsigned accessor
readValueUnsigned(this, index, signed) ==
    IF ~isValidIndex(this, index)
    THEN [err |-> RegisterFileError, value |-> <<>>]
    ELSE [err |-> NoError,
          value |-> getUint(this.data, accessorBytes(this), index * this.byteWidth,
                            this.endianness = "little")]

\* readValue(index, signed) through baseReadValue: [err, value]
readValue(this, index, signed) ==
    IF ~isValidIndex(this, index)
    THEN [err |-> RegisterFileError, value |-> <<>>]
    ELSE LET indexOffset == index * this.byteWidth
             littleEndian == this.endianness = "little"
         IN  [err |-> NoError,
              value |-> IF signed
                        THEN getInt(this.data, accessorBytes(this), indexOffset,
                                    littleEndian)
                        ELSE getUint(this.data, accessorBytes(this), indexOffset,
                                     littleEndian)]

\* IntRegFile.setPC(value), getPC(), getPCValue()
setPC(this, value) == write(this, this.pcIndex, value, FALSE)

getPC(this) == read(this, this.pcIndex)

getPCValue(this) == readValue(this, this.pcIndex, FALSE)

TypeError == "TypeError"

\* IntRegFile.setPCValue(value: bigint): writeValue(this.pcIndex, value).  In
\* a 32-bit file writeValue hands the BigInt to DataView.prototype.setUint32,
\* whose conversion of the value to a Number throws TypeError before a byte
\* is stored; in a 64-bit file setBigUint64 stores it.
setPCValue(this, value) ==
    IF ~isValidIndex(this, this.pcIndex)
    THEN [err |-> RegisterFileError, file |-> this]
    ELSE IF this.width = 32
    THEN [err |-> TypeError, file |-> this]
    ELSE writeValue(this, this.pcIndex, value, FALSE)

(***************************************************************************)
(* The register file on its own: a file is constructed and its methods are *)
(* called in any order with any arguments.                                 *)
(***************************************************************************)
\* number of calls that may change the file
MaxRegOps == 2

\* the files constructed: 32-bit files of three registers in either byte
\* order and a 64-bit file of two
RegFiles ==
    { IntRegFile(32, 3, "little", 0 - 1), IntRegFile(32, 3, "big", 0 - 1),
      IntRegFile(64, 2, "big", 0 - 1) }

\* register indices handed to the methods: the valid ones, -1 and count
RegIndices(this) == (0 - 1) .. this.count

\* byte arrays handed to write: empty, shorter than a 32-bit register with
\* the top bit of either end set, of four, five, eight and nine bytes
RegPayloads ==
    { <<>>, <<128>>, <<1, 130>>, <<130, 1>>, <<1, 2, 3, 132>>,
      <<1, 2, 3, 4, 5>>, <<1, 2, 3, 4, 5, 6, 7, 136>>,
      <<1, 2, 3, 4, 5, 6, 7, 8, 9>> }

\* numbers handed to writeValue of a 32-bit file: 5, 2^31 - 1, 2^31,
\* 2^32 - 2, -1, -2^31 and 0x01028384
RegValues32 ==
    { <<0, 5>>, <<32767, 65535>>, <<32768, 0>>, <<65535, 65534>>,
      <<0 - 1, 65535>>, <<0 - 32768, 0>>, <<258, 33668>> }

\* and of a 64-bit file: 5, -1, 2^64 - 2 and 0x0102030405068788
RegValues64 ==
    { <<0, 0, 0, 5>>, <<0 - 1, 65535, 65535, 65535>>,
      <<65535, 65535, 65535, 65534>>, <<258, 772, 1286, 34696>> }

RegValues(this) == IF this.width = 32 THEN RegValues32 ELSE RegValues64

RegFileInit ==
    /\ intRegFile \in RegFiles
    /\ regFileCall = NoCall
    /\ nRegOps = 0
    /\ MemoryIdle
    /\ RegionIdle
    /\ DecoderIdle
    /\ CoreIdle

\* the file after a call is taken over; a call that changes it counts
RegFileCommit(after) ==
    /\ regFileCall = NoCall
    /\ (after # intRegFile => nRegOps < MaxRegOps)
    /\ intRegFile' = after
    /\ nRegOps' = IF after # intRegFile THEN nRegOps + 1 ELSE nRegOps
    /\ UNCHANGED <<memoryVars, regionVars, decoderVars, coreVars>>

\* regFile.write(index, value, signed)
RegFileWrite ==
    \E index \in RegIndices(intRegFile), value \in RegPayloads, signed \in BOOLEAN :
        LET res == write(intRegFile, index, value, signed)
        IN  /\ RegFileCommit(res.file)
            /\ regFileCall' = [op |-> "write", index |-> index, value |-> value,
                               signed |-> signed, err |-> res.err,
                               before |-> intRegFile]

\* regFile.copyRegister(dst, src)
RegFileCopy ==
    \E dst \in RegIndices(intRegFile), src \in RegIndices(intRegFile) :
        LET res == copyRegister(intRegFile, dst, src)
        IN  /\ RegFileCommit(res.file)
            /\ regFileCall' = [op |-> "copyRegister", dst |-> dst, src |-> src,
                               err |-> res.err, before |-> intRegFile]

\* regFile.read(index)
RegFileRead ==
    \E index \in RegIndices(intRegFile) :
        LET res == read(intRegFile, index)
        IN  /\ RegFileCommit(intRegFile)
            /\ regFileCall' = [op |-> "read", index |-> index, err |-> res.err,
                               data |-> res.data, before |-> intRegFile]

\* regFile.writeValue(index, value, signed)
RegFileWriteValue ==
    \E index \in RegIndices(intRegFile), value \in RegValues(intRegFile),
       signed \in BOOLEAN :
        LET res == writeValue(intRegFile, index, value, signed)
        IN  /\ RegFileCommit(res.file)
            /\ regFileCall' = [op |-> "writeValue", index |-> index,
                               value |-> value, signed |-> signed,
                               err |-> res.err, before |-> intRegFile]

\* regFile.readValue(index, signed)
RegFileReadValue ==
    \E index \in RegIndices(intRegFile), signed \in BOOLEAN :
        LET res == readValue(intRegFile, index, signed)
        IN  /\ RegFileCommit(intRegFile)
            /\ regFileCall' = [op |-> "readValue", index |-> index,
                               signed |-> signed, err |-> res.err,
                               value |-> res.value, before |-> intRegFile]

\* the call has returned (or thrown) to the caller, which goes on
RegFileReturn ==
    /\ regFileCall # NoCall
    /\ regFileCall' = NoCall
    /\ UNCHANGED <<intRegFile, nRegOps, memoryVars, regionVars, decoderVars, coreVars>>

RegFileNext ==
    \/ RegFileWrite
    \/ RegFileCopy
    \/ RegFileRead
    \/ RegFileWriteValue
    \/ RegFileReadValue
    \/ RegFileReturn

RegFileSpec == RegFileInit /\ [][RegFileNext]_vars

(***************************************************************************)
(* The PC slot of an IntRegFile: files are constructed with and without a  *)
(* _pcIndex argument, and the PC methods are called between writes to the  *)
(* registers.                                                              *)
(***************************************************************************)
\* the files constructed: the default PC slot, a PC slot given inside the
\* file (32 and 64 bits) and one given past the last register
PCRegFiles ==
    { IntRegFile(32, 3, "little", 0 - 1), IntRegFile(32, 3, "big", 1),
      IntRegFile(64, 2, "little", 0), IntRegFile(32, 3, "little", 5) }

\* BigInts handed to setPCValue: 5, 0x0102030405068788 and 2^64 - 2
PCValues ==
    { <<0, 0, 0, 5>>, <<258, 772, 1286, 34696>>, <<65535, 65535, 65535, 65534>> }

PCInit ==
    /\ intRegFile \in PCRegFiles
    /\ regFileCall = NoCall
    /\ nRegOps = 0
    /\ MemoryIdle
    /\ RegionIdle
    /\ DecoderIdle
    /\ CoreIdle

\* regFile.setPC(value)
RegFileSetPC ==
    \E value \in RegPayloads :
        LET res == setPC(intRegFile, value)
        IN  /\ RegFileCommit(res.file)
            /\ regFileCall' = [op |-> "setPC", value |-> value, err |-> res.err,
                               before |-> intRegFile]

\* regFile.getPC()
RegFileGetPC ==
    LET res == getPC(intRegFile)
    IN  /\ RegFileCommit(intRegFile)
        /\ regFileCall' = [op |-> "getPC", err |-> res.err, data |-> res.data,
                           before |-> intRegFile]

\* regFile.setPCValue(value)
RegFileSetPCValue ==
    \E value \in PCValues :
        LET res == setPCValue(intRegFile, value)
        IN  /\ RegFileCommit(res.file)
            /\ regFileCall' = [op |-> "setPCValue", value |-> value,
                               err |-> res.err, before |-> intRegFile]

\* regFile.getPCValue()
RegFileGetPCValue ==
    LET res == getPCValue(intRegFile)
    IN  /\ RegFileCommit(intRegFile)
        /\ regFileCall' = [op |-> "getPCValue", err |-> res.err,
                           value |-> res.value, before |-> intRegFile]

PCNext ==
    \/ RegFileWrite
    \/ RegFileSetPC
    \/ RegFileGetPC
    \/ RegFileSetPCValue
    \/ RegFileGetPCValue
    \/ RegFileReturn

PCSpec == PCInit /\ [][PCNext]_vars

(***************************************************************************)
(* The core (RV32ICore and the execution units,                            *)
(* src/src/core/execution.ts lines 15-31 and 199-230).  The core holds the *)
(* memory, the register file IntRegFile(32, 33, "little"), the decoder     *)
(* RVDecoder(32, "little") and the list execUnits.  An execution unit is   *)
(* its kind: the RV32IExecUnit of the source, whose execute has an empty   *)
(* body and returns undefined, or a unit derived from BaseRVExecUnit whose *)
(* execute returns true ("accepting") or false ("declining").              *)
(***************************************************************************)
RVIllegalInstException == "RVIllegalInstException"
RVExecDuplicatedUnitError == "RVExecDuplicatedUnitError"

UnitKinds == {"RV32IExecUnit", "accepting", "declining"}

\* execUnit.execute(instr) taken as a condition: undefined is false
unitExecute(unit, instr) == unit = "accepting"

\* the forEach of RV32ICore.execute from unit k on, then the final test
RECURSIVE executeScan(_, _, _, _)
executeScan(units, instr, k, handled) ==
    IF k > Len(units)
    THEN (IF ~handled THEN RVIllegalInstException ELSE NoError)
    ELSE IF handled THEN RVExecDuplicatedUnitError
    ELSE executeScan(units, instr, k + 1, handled \/ unitExecute(units[k], instr))

\* RV32ICore.execute(instr): the error thrown, NoError when it returns
execute(units, instr) == executeScan(units, instr, 1, FALSE)

\* RV32ICore.fetch(): [err, pc, bytes]; the PC values of the exploration
\* are below 2^31, so that BigInt(pc) is hi * 65536 + lo
fetch(file, regions) ==
    LET pc == getPCValue(file)
    IN  IF pc.err # NoError THEN [err |-> pc.err, pc |-> 0, bytes |-> <<>>]
        ELSE LET address == pc.value[1] * 65536 + pc.value[2]
                 word == MemoryRead(regions, address, 4, 0)
             IN  [err |-> word.err, pc |-> address, bytes |-> word.data]

\* one fetch, decode, execute: [err, pc, inst]; nothing in the three
\* methods writes a register or the memory
step(file, regions, units) ==
    LET fetched == fetch(file, regions)
    IN  IF fetched.err # NoError
        THEN [err |-> fetched.err, pc |-> fetched.pc, inst |-> NoInst]
        ELSE LET decoded == decode("little", fetched.pc, fetched.bytes)
             IN  IF decoded.err # NoError
                 THEN [err |-> decoded.err, pc |-> fetched.pc, inst |-> decoded]
                 ELSE [err |-> execute(units, decoded), pc |-> fetched.pc,
                       inst |-> decoded]

(***************************************************************************)
(* The core with its driver: the driver constructs a Memory and the core,  *)
(* adds regions, stores instruction words, sets the PC and asks for steps. *)
(***************************************************************************)
\* the memories the driver constructs: (memoryStart, memorySize,
\* defaultMemRegionSize)
CoreConfigs == { <<0, 256, 8>>, <<0, 1024, 8>> }

\* addresses of the instructions
CorePCs == {0, 256}

\* the words stored: 0x00500093 (addi x1, x0, 5), 0x00000073 (ecall),
\* 0x008000EF (jal x1, +8) and 0x00000007
CoreWords == { <<147, 0, 80, 0>>, <<115, 0, 0, 0>>, <<239, 0, 128, 0>>, <<7, 0, 0, 0>> }

\* the four little-endian bytes of a PC below 2^16
PCBytes(pc) == <<pc % 256, (pc \div 256) % 256, 0, 0>>

CoreInit ==
    /\ \E c \in CoreConfigs :
        /\ memoryStart = c[1]
        /\ memorySize = c[2]
        /\ defaultMemRegionSize = c[3]
    /\ memoryRegions = <<>>
    /\ lastCall = NoCall
    /\ nMut = 0
    /\ intRegFile = IntRegFile(32, 33, "little", 0 - 1)
    /\ regFileCall = NoCall
    /\ nRegOps = 0
    /\ execUnits = <<"RV32IExecUnit">>
    /\ coreCall = NoCall
    /\ program = NoProgram
    /\ RegionIdle
    /\ DecoderIdle

\* the memory and the register file after a call are taken over; a call
\* that changes one of them counts
CoreCommit(regions, file) ==
    /\ coreCall = NoCall
    /\ (regions # memoryRegions => nMut < MaxMut)
    /\ (file # intRegFile => nRegOps < MaxRegOps)
    /\ memoryRegions' = regions
    /\ nMut' = IF regions # memoryRegions THEN nMut + 1 ELSE nMut
    /\ intRegFile' = file
    /\ nRegOps' = IF file # intRegFile THEN nRegOps + 1 ELSE nRegOps
    /\ UNCHANGED <<memoryStart, memorySize, defaultMemRegionSize, lastCall,
                   regFileCall, execUnits, regionVars, decoderVars>>

\* the driver calls memory.addMemoryRegion(new NormalMemoryRegion(start,
\* defaultMemRegionSize))
CoreAddRegion ==
    \E start \in CorePCs :
        LET region == NormalMemoryRegion(start, defaultMemRegionSize)
            res == addMemoryRegion(memoryRegions, region)
        IN  /\ CoreCommit(res.regions, intRegFile)
            /\ coreCall' = [op |-> "addMemoryRegion", region |-> region,
                            err |-> res.err]
            /\ UNCHANGED program

\* the driver stores an instruction: memory.write(address, 4, bytes)
CoreStore ==
    \E address \in CorePCs, bytes \in CoreWords :
        LET res == MemoryWrite(memoryRegions, address, 4, bytes)
        IN  /\ CoreCommit(res.regions, intRegFile)
            /\ coreCall' = [op |-> "write", address |-> address, bytes |-> bytes,
                            err |-> res.err]
            /\ program' = [address |-> address, bytes |-> bytes, err |-> res.err]

\* the driver sets the PC: core.intRegFile.setPC(bytes)
CoreSetPC ==
    \E pc \in CorePCs :
        LET res == setPC(intRegFile, PCBytes(pc))
        IN  /\ CoreCommit(memoryRegions, res.file)
            /\ coreCall' = [op |-> "setPC", pc |-> pc, err |-> res.err]
            /\ UNCHANGED program

\* the driver asks for one step: core.execute(core.decode(...core.fetch()))
CoreStep ==
    LET res == step(intRegFile, memoryRegions, execUnits)
    IN  /\ CoreCommit(memoryRegions, intRegFile)
        /\ coreCall' = [op |-> "step", pc |-> res.pc, inst |-> res.inst,
                        err |-> res.err, fileBefore |-> intRegFile,
                        regionsBefore |-> memoryRegions]
        /\ UNCHANGED program

\* the call has returned (or thrown) to the driver, which goes on
CoreReturn ==
    /\ coreCall # NoCall
    /\ coreCall' = NoCall
    /\ UNCHANGED <<memoryVars, regFileVars, execUnits, program, regionVars, decoderVars>>

CoreNext == CoreAddRegion \/ CoreStore \/ CoreSetPC \/ CoreStep \/ CoreReturn

CoreSpec == CoreInit /\ [][CoreNext]_vars

(***************************************************************************)
(* The core with a configured list of execution units: the driver puts     *)
(* units of any kind into core.execUnits and hands decoded instructions to *)
(* core.execute.                                                           *)
(***************************************************************************)
\* longest list of units
MaxUnits == 3

UnitLists == UNION { [1 .. n -> UnitKinds] : n \in 0 .. MaxUnits }

\* the instructions core.decode returns for the bytes and addresses offered
DecodedInsts ==
    { i \in { decode("little", pc, bytes) : pc \in InstPCs, bytes \in InstBytes } :
        i.err = NoError }

ExecUnitsInit ==
    /\ \E c \in CoreConfigs :
        /\ memoryStart = c[1]
        /\ memorySize = c[2]
        /\ defaultMemRegionSize = c[3]
    /\ memoryRegions = <<>>
    /\ lastCall = NoCall
    /\ nMut = 0
    /\ intRegFile = IntRegFile(32, 33, "little", 0 - 1)
    /\ regFileCall = NoCall
    /\ nRegOps = 0
    /\ execUnits \in UnitLists
    /\ coreCall = NoCall
    /\ program = NoProgram
    /\ RegionIdle
    /\ DecoderIdle

\* the driver calls core.execute(instr)
CoreExecute ==
    \E instr \in DecodedInsts :
        /\ CoreCommit(memoryRegions, intRegFile)
        /\ coreCall' = [op |-> "execute", inst |-> instr,
                        err |-> execute(execUnits, instr)]
        /\ UNCHANGED program

ExecUnitsNext == CoreExecute \/ CoreReturn

ExecUnitsSpec == ExecUnitsInit /\ [][ExecUnitsNext]_vars

(***************************************************************************)
(* Vocabulary of the properties                                            *)
(***************************************************************************)
RegionEnd(r) == r.regionStart + r.regionSize

\* [address, address + size) lies inside region r
Contains(r, address, size) ==
    r.regionStart <= address /\ address + size <= RegionEnd(r)

\* half-open intervals of a and b intersect
Overlaps(a, b) ==
    a.regionStart < RegionEnd(b) /\ b.regionStart < RegionEnd(a)

AddressInMemory(address) ==
    memoryStart <= address /\ address < memoryStart + memorySize

RegionInMemory(r) ==
    memoryStart <= r.regionStart /\ RegionEnd(r) <= memoryStart + memorySize

\* the byte stored for address x in a list of regions, -1 when none is stored
ByteOf(regions, x) ==
    LET hits == {i \in 1 .. Len(regions) :
                    /\ regions[i].kind = "normal"
                    /\ Contains(regions[i], x, 1)}
    IN  IF hits = {} THEN -1
        ELSE LET i == CHOOSE i \in hits : TRUE
             IN  regions[i].memBackend[x - regions[i].regionStart + 1]

\* what memory.read(address, size) returns in the current state
ReadBack(address, size) == MemoryRead(memoryRegions, address, size, 0)

\* the last call was op with one of the four widths at an aligned address
AlignedCall(op) ==
    /\ lastCall.op = op
    /\ lastCall.size \in ValidAccessSizes
    /\ lastCall.address % lastCall.size = 0

SomeRegionContains(regions, address, size) ==
    \E i \in 1 .. Len(regions) : Contains(regions[i], address, size)

(***************************************************************************)
(* C1: on a Memory that has only ever been written, every aligned write of *)
(* 1, 2, 4 or 8 bytes at an address inside the memory bounds succeeds, the *)
(* read that follows returns the payload, and the write adds at most one   *)
(* region.                                                                 *)
(***************************************************************************)
C1_WriteThenRead ==
    (AlignedCall("write") /\ AddressInMemory(lastCall.address))
    => /\ lastCall.err = NoError
       /\ ReadBack(lastCall.address, lastCall.size).err = NoError
       /\ ReadBack(lastCall.address, lastCall.size).data = lastCall.data
       /\ Len(memoryRegions) <= Len(lastCall.before) + 1

(***************************************************************************)
(* C2: the region list is sorted by regionStart and its regions do not     *)
(* overlap: each region ends at or before the start of the next.           *)
(***************************************************************************)
C2_SortedDisjoint ==
    \A i \in 1 .. (Len(memoryRegions) - 1) :
        RegionEnd(memoryRegions[i]) <= memoryRegions[i + 1].regionStart

\* the last call added a region in front of the one the list already held
C2_Witness ==
    /\ Len(memoryRegions) >= 2
    /\ lastCall.op = "addMemoryRegion"
    /\ lastCall.err = NoError
    /\ memoryRegions[1] = lastCall.region
    /\ memoryRegions[2] = lastCall.before[1]

(***************************************************************************)
(* C3: every region of the list starts at a multiple of                    *)
(* defaultMemRegionSize.                                                   *)
(***************************************************************************)
C3_StartsAligned ==
    \A i \in 1 .. Len(memoryRegions) :
        memoryRegions[i].regionStart % defaultMemRegionSize = 0

(***************************************************************************)
(* C4: an aligned in-bounds write to a Memory with no region succeeds and  *)
(* leaves exactly one NormalRegion, of the default size, starting at the   *)
(* address rounded down to a multiple of the default size; the read that   *)
(* follows returns the payload.                                            *)
(***************************************************************************)
C4_WriteOnEmpty ==
    (/\ AlignedCall("write")
     /\ AddressInMemory(lastCall.address)
     /\ lastCall.before = <<>>)
    => /\ lastCall.err = NoError
       /\ Len(memoryRegions) = 1
       /\ memoryRegions[1].kind = "normal"
       /\ memoryRegions[1].regionStart =
              lastCall.address - (lastCall.address % defaultMemRegionSize)
       /\ memoryRegions[1].regionSize = defaultMemRegionSize
       /\ ReadBack(lastCall.address, lastCall.size).data = lastCall.data

(***************************************************************************)
(* C5: findRegion returns a region that contains [addr, addr+size)         *)
(* whenever the list holds one (also when addr+size is the region end),    *)
(* and throws MemoryRegionError when no single region contains it.         *)
(***************************************************************************)
C5_FindRegion ==
    lastCall.op = "findRegion"
    => IF SomeRegionContains(memoryRegions, lastCall.address, lastCall.size)
       THEN /\ lastCall.err = NoError
            /\ lastCall.index # 0
            /\ Contains(memoryRegions[lastCall.index], lastCall.address, lastCall.size)
       ELSE lastCall.err = MemoryRegionError

(***************************************************************************)
(* C6: on an empty list, addMemoryRegion succeeds for every NormalRegion   *)
(* that starts at memoryStart + k * defaultMemRegionSize and lies inside   *)
(* the memory bounds; the region is then in the list and findRegion        *)
(* returns it for every aligned access inside it.                          *)
(***************************************************************************)
C6_AddToEmpty ==
    (/\ lastCall.op = "addMemoryRegion"
     /\ lastCall.before = <<>>
     /\ lastCall.region.kind = "normal"
     /\ RegionInMemory(lastCall.region)
     /\ (lastCall.region.regionStart - memoryStart) % defaultMemRegionSize = 0)
    => /\ lastCall.err = NoError
       /\ memoryRegions = <<lastCall.region>>
       /\ \A a \in Addrs, s \in ValidAccessSizes :
            (a % s = 0 /\ Contains(lastCall.region, a, s))
            => findRegion(memoryRegions, a, s) = 1

(***************************************************************************)
(* C7: addMemoryRegion throws MemoryRegionError, and changes nothing, when *)
(* the region is not inside the memory bounds, or does not start at a      *)
(* multiple of defaultMemRegionSize, or overlaps a region of the list.     *)
(***************************************************************************)
C7_AddRejects ==
    (/\ lastCall.op = "addMemoryRegion"
     /\ \/ ~RegionInMemory(lastCall.region)
        \/ lastCall.region.regionStart % defaultMemRegionSize # 0
        \/ \E i \in 1 .. Len(lastCall.before) :
              Overlaps(lastCall.region, lastCall.before[i]))
    => /\ lastCall.err = MemoryRegionError
       /\ memoryRegions = lastCall.before

(***************************************************************************)
(* C8: adding a valid mergeable region that overlaps nothing and is        *)
(* exactly adjacent to a mergeable region e of the list succeeds without   *)
(* adding a region: one region then covers both ranges, and the bytes of   *)
(* e and of the new region read back at their addresses.  (Valid: inside   *)
(* the memory bounds, aligned, and let through by isRegionValid, so that   *)
(* the case is decided by the merge alone.)                                *)
(***************************************************************************)
C8_AddMerges ==
    \A i \in 1 .. (IF lastCall.op = "addMemoryRegion" THEN Len(lastCall.before) ELSE 0) :
        LET r == lastCall.region
            e == lastCall.before[i]
            lo == IF r.regionStart < e.regionStart THEN r.regionStart ELSE e.regionStart
            hi == IF RegionEnd(r) > RegionEnd(e) THEN RegionEnd(r) ELSE RegionEnd(e)
        IN  (/\ r.mergeable /\ e.mergeable
             /\ RegionInMemory(r) /\ RegionInMemory(e)
             /\ r.regionStart % defaultMemRegionSize = 0
             /\ isRegionValid(r)
             /\ \A j \in 1 .. Len(lastCall.before) : ~Overlaps(r, lastCall.before[j])
             /\ (RegionEnd(r) = e.regionStart \/ RegionEnd(e) = r.regionStart))
            => /\ lastCall.err = NoError
               /\ Len(memoryRegions) <= Len(lastCall.before)
               /\ \E k \in 1 .. Len(memoryRegions) :
                    Contains(memoryRegions[k], lo, hi - lo)
               /\ \A x \in e.regionStart .. (RegionEnd(e) - 1) :
                    ByteOf(memoryRegions, x) = ByteOf(lastCall.before, x)
               /\ \A x \in r.regionStart .. (RegionEnd(r) - 1) :
                    ByteOf(memoryRegions, x) = ByteOf(<<r>>, x)

(***************************************************************************)
(* C9: read and write throw MemoryError, and change nothing, when the      *)
(* size is not 1, 2, 4 or 8 or the address is not a multiple of the size.  *)
(***************************************************************************)
C9_SizeOneTwoFourEight ==
    (/\ lastCall.op \in {"read", "write"}
     /\ \/ lastCall.size \notin ValidAccessSizes
        \/ lastCall.address % lastCall.size # 0)
    => /\ lastCall.err = MemoryError
       /\ memoryRegions = lastCall.before

\* the sizes isAccessAligned lets through
PowersOfTwo == {1, 2, 4, 8, 16, 32, 64}

(***************************************************************************)
(* C9, as amended: read and write throw MemoryError, and change nothing,   *)
(* when the size is not a power of two or the address is not a multiple of *)
(* the size.                                                               *)
(***************************************************************************)
C9_SizePowerOfTwo ==
    (/\ lastCall.op \in {"read", "write"}
     /\ \/ lastCall.size \notin PowersOfTwo
        \/ lastCall.address % lastCall.size # 0)
    => /\ lastCall.err = MemoryError
       /\ memoryRegions = lastCall.before

\* a misaligned write of a legal width into a region that holds the bytes
C9_Witness ==
    /\ lastCall.op = "write"
    /\ lastCall.size \in ValidAccessSizes
    /\ lastCall.address % lastCall.size # 0
    /\ SomeRegionContains(memoryRegions, lastCall.address, lastCall.size)
    /\ lastCall.err = MemoryError

AlignedRegionCall(op) ==
    /\ regionCall.op = op
    /\ regionCall.address % regionCall.size = 0

(***************************************************************************)
(* C11: on a NormalMemoryRegion, an aligned write of 1, 2, 4 or 8 bytes    *)
(* that lies inside the region (its end may be the region's end) succeeds, *)
(* and the read of the same range that follows returns the payload just    *)
(* written, whatever the range held before.                                *)
(***************************************************************************)
C11_RegionWriteThenRead ==
    (/\ AlignedRegionCall("write")
     /\ Contains(regionCall.this, regionCall.address, regionCall.size))
    => /\ regionCall.err = NoError
       /\ NormalRead(regionA, regionCall.address, regionCall.size).err = NoError
       /\ NormalRead(regionA, regionCall.address, regionCall.size).data
              = regionCall.data

\* the write served a region of the list that is not a device
ServedByNormal(address, size) ==
    LET i == findRegion(memoryRegions, address, size)
    IN  i = 0 \/ memoryRegions[i].kind = "normal"

(***************************************************************************)
(* C12: after a successful Memory.write(a, s, p) to normal memory, every   *)
(* aligned read (a', s') inside [a, a+s) returns the bytes                 *)
(* p[a'-a .. a'-a+s'-1] in address order.                                  *)
(***************************************************************************)
C12_ByteOrder ==
    (/\ AlignedCall("write")
     /\ lastCall.err = NoError
     /\ ServedByNormal(lastCall.address, lastCall.size))
    => \A a \in Addrs, s \in ValidAccessSizes :
          (/\ a % s = 0
           /\ lastCall.address <= a
           /\ a + s <= lastCall.address + lastCall.size)
          => /\ ReadBack(a, s).err = NoError
             /\ ReadBack(a, s).data
                    = SubSeq(lastCall.data, a - lastCall.address + 1,
                             a - lastCall.address + s)

\* a four-byte write that changed the bytes of a region
C12_Witness ==
    /\ AlignedCall("write")
    /\ lastCall.err = NoError
    /\ lastCall.size = 4
    /\ memoryRegions # lastCall.before
    /\ ServedByNormal(lastCall.address, lastCall.size)
    /\ ReadBack(lastCall.address + 2, 2).data = <<3, 4>>

(***************************************************************************)
(* C13: read and write of a NormalMemoryRegion succeed for every access    *)
(* that lies inside [regionStart, regionStart + regionSize) and throw      *)
(* MemoryRegionError for every other access, which leaves the region's     *)
(* bytes and size as they were.                                            *)
(***************************************************************************)
C13_RegionRangeCheck ==
    regionCall.op \in {"read", "write"}
    => IF Contains(regionCall.this, regionCall.address, regionCall.size)
       THEN regionCall.err = NoError
       ELSE /\ regionCall.err = MemoryRegionError
            /\ regionA = regionCall.this

\* the receiver of the last call is, in the state, the region the call left
ReceiverUpdated ==
    \/ (regionA = regionCall.after /\ regionB = regionCall.other)
    \/ (regionB = regionCall.after /\ regionA = regionCall.other)

C15_MergeApart ==
    (/\ regionCall.op = "merge"
     /\ RegionEnd(regionCall.this) # regionCall.other.regionStart)
    => /\ regionCall.err = MemoryRegionError
       /\ regionCall.after = regionCall.this
       /\ ReceiverUpdated

(***************************************************************************)
(* C16: relocate returns false and shrinkRegion(k) returns false for every *)
(* k >= 0, the region staying as it was; expandRegion(k) returns true for  *)
(* every k >= 1, the size grows by k, the bytes held stay and the new      *)
(* bytes are zero.                                                         *)
(***************************************************************************)
C16_GrowOnly ==
    /\ regionCall.op = "relocate"
       => (regionCall.ret = FALSE /\ regionA = regionCall.this)
    /\ (regionCall.op = "shrinkRegion" /\ regionCall.arg >= 0)
       => (regionCall.ret = FALSE /\ regionA = regionCall.this)
    /\ (regionCall.op = "expandRegion" /\ regionCall.arg >= 1)
       => /\ regionCall.ret = TRUE
          /\ regionA.regionStart = regionCall.this.regionStart
          /\ regionA.regionSize = regionCall.this.regionSize + regionCall.arg
          /\ regionA.memBackend
                 = regionCall.this.memBackend \o Zeros(regionCall.arg)

(***************************************************************************)
(* C16, as amended: relocate returns false and shrinkRegion(k) returns     *)
(* false for every k >= 1, the region staying as it was; shrinkRegion(0)   *)
(* returns true and changes nothing; expandRegion(k) returns true for      *)
(* every k >= 1, the size grows by k, the bytes held stay and the new      *)
(* bytes are zero.                                                         *)
(***************************************************************************)
C16_GrowOnlyShrinkByOne ==
    /\ regionCall.op = "relocate"
       => (regionCall.ret = FALSE /\ regionA = regionCall.this)
    /\ (regionCall.op = "shrinkRegion" /\ regionCall.arg >= 1)
       => (regionCall.ret = FALSE /\ regionA = regionCall.this)
    /\ (regionCall.op = "shrinkRegion" /\ regionCall.arg = 0)
       => (regionCall.ret = TRUE /\ regionA = regionCall.this)
    /\ (regionCall.op = "expandRegion" /\ regionCall.arg >= 1)
       => /\ regionCall.ret = TRUE
          /\ regionA.regionStart = regionCall.this.regionStart
          /\ regionA.regionSize = regionCall.this.regionSize + regionCall.arg
          /\ regionA.memBackend
                 = regionCall.this.memBackend \o Zeros(regionCall.arg)

\* a region holding written bytes has been expanded by two
C16_Witness ==
    /\ regionCall.op = "expandRegion"
    /\ regionCall.arg = 2
    /\ regionCall.this.memBackend[1] # 0
    /\ regionCall.ret = TRUE
    /\ regionA.regionSize = regionCall.this.regionSize + 2

(***************************************************************************)
(* C17: when a.isOverlap(b) is true, a.isHigherThan(b) and                 *)
(* a.isLowerThan(b) are both false.                                        *)
(***************************************************************************)
C17_OverlapNotOrdered ==
    (regionCall.op = "compare" /\ regionCall.isOverlap)
    => (~regionCall.isHigherThan /\ ~regionCall.isLowerThan)

\* two different regions that share some but not all of their bytes
C17_Witness ==
    /\ regionCall.op = "compare"
    /\ regionCall.isOverlap
    /\ regionCall.this.regionStart < regionCall.other.regionStart
    /\ RegionEnd(regionCall.this) > regionCall.other.regionStart
    /\ ~regionCall.isLowerThan

(***************************************************************************)
(* C18: when a.isAlignLower(b) returns true, a.isLowerThan(b) is true and  *)
(* b.isHigherThan(a) is true.                                              *)
(***************************************************************************)
C18_AlignLowerIsLower ==
    (regionCall.op = "compare" /\ regionCall.isAlignLower)
    => (regionCall.isLowerThan /\ regionCall.otherIsHigherThan)

(***************************************************************************)
(* C18, as amended: when a.isAlignHigher(b) returns true (a ends where b   *)
(* starts), a.isLowerThan(b) and b.isHigherThan(a) are true; when          *)
(* a.isAlignLower(b) returns true (b ends where a starts),                 *)
(* a.isHigherThan(b) and b.isLowerThan(a) are true.                        *)
(***************************************************************************)
C18_AlignHigherIsLower ==
    regionCall.op = "compare"
    => /\ regionCall.isAlignHigher
          => (/\ RegionEnd(regionCall.this) = regionCall.other.regionStart
              /\ regionCall.isLowerThan
              /\ regionCall.otherIsHigherThan)
       /\ regionCall.isAlignLower
          => (/\ RegionEnd(regionCall.other) = regionCall.this.regionStart
              /\ regionCall.isHigherThan
              /\ regionCall.otherIsLowerThan)

\* a region that ends where the other one starts has been compared with it
C18_Witness ==
    /\ regionCall.op = "compare"
    /\ RegionEnd(regionCall.this) = regionCall.other.regionStart
    /\ regionCall.isAlignHigher
    /\ regionCall.otherIsHigherThan

(***************************************************************************)
(* C19: for NormalMemoryRegions a and b, a.isAlignLower(b) implies         *)
(* a.isHigherThan(b), and a.isAlignHigher(b) implies a.isLowerThan(b).     *)
(***************************************************************************)
C19_AlignImpliesOrder ==
    (regionCall.op = "compare"
     /\ regionCall.this.kind = "normal" /\ regionCall.other.kind = "normal")
    => /\ regionCall.isAlignLower => regionCall.isHigherThan
       /\ regionCall.isAlignHigher => regionCall.isLowerThan

\* a region that starts where the other one ends has been compared with it
C19_Witness ==
    /\ regionCall.op = "compare"
    /\ regionCall.this.regionStart = RegionEnd(regionCall.other)
    /\ regionCall.isAlignLower
    /\ regionCall.isHigherThan

\* bits[1:0] of the encoding the decoder was given
LowTwoBits(encoding) == encoding[0] + 2 * encoding[1]

(***************************************************************************)
(* C20: the decoder accepts an encoding exactly when its bits[1:0] are     *)
(* 0b11: decode throws RVIllegalInstError for every other encoding and     *)
(* returns an instruction for every encoding whose bits[1:0] are 0b11.     *)
(***************************************************************************)
C20_AcceptsLowBitsThree ==
    inst # NoInst
    => IF LowTwoBits(inst.encoding) = 3
       THEN inst.err = NoError
       ELSE inst.err = RVIllegalInstError

\* bit i of the 32-bit word that four bytes spell in the given byte order
BitOf(bytes, endianness, i) ==
    LET byte == IF endianness = "little" THEN bytes[(i \div 8) + 1]
                ELSE bytes[4 - (i \div 8)]
    IN  (byte \div Pow2(i % 8)) % 2

\* the bits hi .. lo of that word as a natural, bit lo counting 1
RECURSIVE Slice(_, _, _, _)
Slice(bytes, endianness, hi, lo) ==
    IF hi < lo THEN 0
    ELSE BitOf(bytes, endianness, hi) * Pow2(hi - lo)
         + Slice(bytes, endianness, hi - 1, lo)

\* a natural below 2^bits read as a two's complement number of that many bits
SignExtend(n, bits) == IF n >= Pow2(bits - 1) THEN n - Pow2(bits) ELSE n

\* the word and the slices of the bytes handed to the last decode
CallBit(i) == BitOf(decodeCall.bytes, decodeCall.decoder.endianness, i)
CallSlice(hi, lo) == Slice(decodeCall.bytes, decodeCall.decoder.endianness, hi, lo)

(***************************************************************************)
(* C21: for every 32-bit encoding e whose bits[1:0] are 0b11,              *)
(* decode(pc, bytes) returns an instruction with the given pc, with        *)
(* encoding = e (the bytes read in the decoder's endianness) and with      *)
(* baseOpcode = e[6:2], rd = e[11:7], funct3 = e[14:12], rs1 = e[19:15],   *)
(* rs2 = e[24:20] and funct7 = e[31:25].                                   *)
(***************************************************************************)
C21_DecodedFields ==
    (decodeCall.op = "decode" /\ CallSlice(1, 0) = 3)
    => /\ inst.err = NoError
       /\ inst.pc = decodeCall.pc
       /\ inst.encoding = [i \in BitPositions |-> CallBit(i)]
       /\ inst.baseOpcode = CallSlice(6, 2)
       /\ inst.rd = CallSlice(11, 7)
       /\ inst.funct3 = CallSlice(14, 12)
       /\ inst.rs1 = CallSlice(19, 15)
       /\ inst.rs2 = CallSlice(24, 20)
       /\ inst.funct7 = CallSlice(31, 25)

C23_ImmSBJ ==
    /\ (decodeCall.op = "decode" /\ inst.err = NoError)
       => /\ inst.imm_s = SignExtend(CallSlice(31, 25) * 32 + CallSlice(11, 7), 12)
          /\ inst.imm_b = SignExtend(CallBit(31) * 4096 + CallBit(7) * 2048
                                     + CallSlice(30, 25) * 32
                                     + CallSlice(11, 8) * 2, 13)
          /\ inst.imm_j = SignExtend(CallBit(31) * 1048576
                                     + CallSlice(19, 12) * 4096
                                     + CallBit(20) * 2048
                                     + CallSlice(30, 21) * 2, 21)
    /\ (decodeCall.op = "decode" /\ decodeCall.decoder.endianness = "little"
        /\ decodeCall.bytes = <<239, 0, 128, 0>>)
       => (inst.err = NoError /\ inst.imm_j = 8)

\* the indices of the registers of a file, and the bytes of one of them
ValidIndices(file) == 0 .. (file.count - 1)

RegisterBytes(file, index) ==
    [k \in 1 .. file.byteWidth |-> file.data[index * file.byteWidth + k]]

\* the file is the one before the call but for the register index
OnlyRegisterChanged(index) ==
    /\ [intRegFile EXCEPT !.data = regFileCall.before.data] = regFileCall.before
    /\ Len(intRegFile.data) = Len(regFileCall.before.data)
    /\ \A j \in ValidIndices(intRegFile) :
        j # index => RegisterBytes(intRegFile, j) = RegisterBytes(regFileCall.before, j)

\* n copies of a byte
Fill(n, byte) == [k \in 1 .. n |-> byte]

\* the byte that extends the array handed to the last write
ExtensionByte ==
    LET value == regFileCall.value
        top == IF regFileCall.before.endianness = "little"
               THEN value[Len(value)] ELSE value[1]
    IN  IF regFileCall.signed /\ Len(value) > 0 /\ top >= 128 THEN 255 ELSE 0

(***************************************************************************)
(* C27: write(i, bytes, signed) with fewer bytes than width/8 stores the   *)
(* bytes in the low-order positions of register i (the lowest addresses of *)
(* a little-endian file, the highest of a big-endian one) and fills the    *)
(* remaining high-order bytes with 0xFF when signed is set and the top bit *)
(* of the most significant incoming byte is 1, with 0x00 otherwise; no     *)
(* other register changes.                                                 *)
(***************************************************************************)
C27_ShortWriteExtends ==
    (regFileCall.op = "write"
     /\ regFileCall.index \in ValidIndices(regFileCall.before)
     /\ Len(regFileCall.value) < regFileCall.before.byteWidth)
    => LET missing == regFileCall.before.byteWidth - Len(regFileCall.value)
       IN  /\ regFileCall.err = NoError
           /\ RegisterBytes(intRegFile, regFileCall.index) =
                IF intRegFile.endianness = "little"
                THEN regFileCall.value \o Fill(missing, ExtensionByte)
                ELSE Fill(missing, ExtensionByte) \o regFileCall.value
           /\ OnlyRegisterChanged(regFileCall.index)

\* a short array with its top bit set has been written signed and extended
\* with 0xFF, in a file whose other registers hold something
C27_Witness ==
    /\ regFileCall.op = "write"
    /\ regFileCall.err = NoError
    /\ regFileCall.signed
    /\ Len(regFileCall.value) \in 1 .. (intRegFile.byteWidth - 1)
    /\ ExtensionByte = 255
    /\ RegisterBytes(intRegFile, regFileCall.index) # RegisterBytes(regFileCall.before, regFileCall.index)
    /\ \E j \in ValidIndices(intRegFile) :
        j # regFileCall.index /\ RegisterBytes(intRegFile, j) # Fill(intRegFile.byteWidth, 0)

(***************************************************************************)
(* C28: write(i, bytes, signed) with more bytes than width/8 fails with    *)
(* RegisterError for every valid index i and leaves the register file      *)
(* unchanged.                                                              *)
(***************************************************************************)
C28_LongWriteRejected ==
    (regFileCall.op = "write"
     /\ regFileCall.index \in ValidIndices(regFileCall.before)
     /\ Len(regFileCall.value) > regFileCall.before.byteWidth)
    => /\ regFileCall.err = RegisterError
       /\ intRegFile = regFileCall.before

\* an array one byte too long has been handed to a file that holds something
C28_Witness ==
    /\ regFileCall.op = "write"
    /\ regFileCall.index \in ValidIndices(regFileCall.before)
    /\ Len(regFileCall.value) = intRegFile.byteWidth + 1
    /\ regFileCall.err = RegisterError
    /\ intRegFile.data # Fill(Len(intRegFile.data), 0)

\* the numbers a 32-bit accessor of the given signedness represents
Representable32(value, signed) ==
    /\ Len(value) = 2
    /\ value[2] \in 0 .. 65535
    /\ IF signed THEN value[1] \in (0 - 32768) .. 32767 ELSE value[1] \in 0 .. 65535

\* the unsigned integer four bytes spell in the byte order of the file
BytesInteger32(bytes, endianness) ==
    IF endianness = "little"
    THEN <<bytes[4] * 256 + bytes[3], bytes[2] * 256 + bytes[1]>>
    ELSE <<bytes[1] * 256 + bytes[2], bytes[3] * 256 + bytes[4]>>

\* two numbers of two limbs are equal modulo 2^32
EqualMod32(a, b) == a[2] = b[2] /\ (a[1] - b[1]) % 65536 = 0

(***************************************************************************)
(* C29: in a 32-bit register file, for every valid index i (0 included),   *)
(* writeValue(i, v, signed) followed by readValue(i, signed) returns v for *)
(* every v representable with that signedness; readValue(i, true) and      *)
(* readValue(i, false) denote the same 32 bits (they are equal modulo      *)
(* 2^32), and both are the integer formed from the bytes of read(i) in the *)
(* byte order of the file.                                                 *)
(***************************************************************************)
C29_ValueRoundTrip ==
    /\ (regFileCall.op = "writeValue"
        /\ regFileCall.before.width = 32
        /\ regFileCall.index \in ValidIndices(regFileCall.before)
        /\ Representable32(regFileCall.value, regFileCall.signed))
       => /\ regFileCall.err = NoError
          /\ readValue(intRegFile, regFileCall.index, regFileCall.signed) =
                [err |-> NoError, value |-> regFileCall.value]
    /\ intRegFile.width = 32
       => \A i \in ValidIndices(intRegFile) :
            LET s == readValue(intRegFile, i, TRUE)
                u == readValue(intRegFile, i, FALSE)
                integer == BytesInteger32(read(intRegFile, i).data,
                                          intRegFile.endianness)
            IN  /\ s.err = NoError /\ u.err = NoError
                /\ u.value = integer
                /\ EqualMod32(s.value, integer)
                /\ Representable32(s.value, TRUE)

\* -1 has been written signed into register 0 of a big-endian file: it
\* reads back as -1 signed and as 2^32 - 1 unsigned
C29_Witness ==
    /\ regFileCall.op = "writeValue"
    /\ intRegFile.width = 32
    /\ intRegFile.endianness = "big"
    /\ regFileCall.index = 0
    /\ regFileCall.signed
    /\ regFileCall.value = <<0 - 1, 65535>>
    /\ readValue(intRegFile, 0, TRUE).value = <<0 - 1, 65535>>
    /\ readValue(intRegFile, 0, FALSE).value = <<65535, 65535>>

(***************************************************************************)
(* C30: copyRegister(dst, src) with valid indices makes register dst       *)
(* byte-for-byte equal to the value register src had before the call and   *)
(* leaves src and every other register unchanged.                          *)
(***************************************************************************)
C30_CopyRegister ==
    (regFileCall.op = "copyRegister"
     /\ regFileCall.dst \in ValidIndices(regFileCall.before)
     /\ regFileCall.src \in ValidIndices(regFileCall.before))
    => /\ regFileCall.err = NoError
       /\ RegisterBytes(intRegFile, regFileCall.dst) =
            RegisterBytes(regFileCall.before, regFileCall.src)
       /\ OnlyRegisterChanged(regFileCall.dst)

\* a register that holds something has been copied over another one that
\* held something else
C30_Witness ==
    /\ regFileCall.op = "copyRegister"
    /\ regFileCall.err = NoError
    /\ regFileCall.dst # regFileCall.src
    /\ RegisterBytes(regFileCall.before, regFileCall.src) # Fill(intRegFile.byteWidth, 0)
    /\ RegisterBytes(regFileCall.before, regFileCall.dst) #
         RegisterBytes(regFileCall.before, regFileCall.src)
    /\ RegisterBytes(intRegFile, regFileCall.dst) =
         RegisterBytes(regFileCall.before, regFileCall.src)

\* the number of units of the list that accept an instruction
Accepting(units) == Cardinality({k \in 1 .. Len(units) : units[k] = "accepting"})

(***************************************************************************)
(* C24: Core.execute(inst) over its ordered list of execution units        *)
(* completes normally if and only if exactly one unit accepts inst         *)
(* (whatever the position of that unit, however many declining units       *)
(* follow it), raises IllegalInstException if and only if no unit accepts, *)
(* and raises ExecDuplicatedUnitError if and only if two or more accept.   *)
(***************************************************************************)
C24_ExactlyOneUnit ==
    coreCall.op = "execute"
    => /\ coreCall.err = NoError <=> Accepting(execUnits) = 1
       /\ coreCall.err = RVIllegalInstException <=> Accepting(execUnits) = 0
       /\ coreCall.err = RVExecDuplicatedUnitError <=> Accepting(execUnits) >= 2

\* the word at an address of a region list, <<>> when no four-byte read
\* gives it
WordAt(regions, address) == MemoryRead(regions, address, 4, 0).data

\* the general registers x0 .. x31 of the core and its PC slot
XRegisters == 0 .. 31

(***************************************************************************)
(* C25: once the word 0x00500093 (addi x1, x0, 5) has been stored at       *)
(* address 0, with PC = 0 and x0 = 0, one fetch-decode-execute step of the *)
(* RV32I core retires without error and leaves x1 = 5 and PC = 4, every    *)
(* other register unchanged.  The premise is that the driver stored the    *)
(* word with memory.write(0, 4, bytes), the way the Memory offers to put a *)
(* word at an address.                                                     *)
(***************************************************************************)
C25_AddiStep ==
    (coreCall.op = "step"
     /\ program # NoProgram
     /\ program.address = 0
     /\ program.bytes = <<147, 0, 80, 0>>
     /\ getPCValue(coreCall.fileBefore).value = <<0, 0>>
     /\ RegisterBytes(coreCall.fileBefore, 0) = Fill(4, 0))
    => /\ coreCall.err = NoError
       /\ RegisterBytes(intRegFile, 1) = <<5, 0, 0, 0>>
       /\ getPCValue(intRegFile).value = <<0, 4>>
       /\ \A x \in XRegisters :
            x # 1 => RegisterBytes(intRegFile, x) = RegisterBytes(coreCall.fileBefore, x)

(***************************************************************************)
(* C26: with the memory holding the word 0x00000073 (ECALL) at address     *)
(* 0x100 and PC = 0x100, one step raises ECALLTrap carrying the decoded    *)
(* instruction (not an illegal-instruction exception), and after the trap  *)
(* every register, the PC included (still 0x100), and all of the memory    *)
(* are unchanged.                                                          *)
(***************************************************************************)
C26_EcallStep ==
    (coreCall.op = "step"
     /\ getPCValue(coreCall.fileBefore).value = <<0, 256>>
     /\ WordAt(coreCall.regionsBefore, 256) = <<115, 0, 0, 0>>)
    => /\ coreCall.err = "RVECALLTrap"
       /\ coreCall.inst # NoInst
       /\ coreCall.inst.pc = 256
       /\ coreCall.inst.bytes = <<115, 0, 0, 0>>
       /\ intRegFile = coreCall.fileBefore
       /\ getPCValue(intRegFile).value = <<0, 256>>
       /\ memoryRegions = coreCall.regionsBefore

(***************************************************************************)
(* C31: read, write, readValue, writeValue and copyRegister called with an *)
(* index outside 0 .. count - 1 (for copyRegister: either index) fail with *)
(* RegisterFileError and leave every register unchanged; write reports the *)
(* index before it looks at the length of the array.                       *)
(***************************************************************************)
C31_InvalidIndexRejected ==
    /\ (regFileCall.op \in {"read", "write", "readValue", "writeValue"}
        /\ regFileCall.index \notin ValidIndices(regFileCall.before))
       => (regFileCall.err = RegisterFileError /\ intRegFile = regFileCall.before)
    /\ (regFileCall.op = "copyRegister"
        /\ (regFileCall.dst \notin ValidIndices(regFileCall.before)
            \/ regFileCall.src \notin ValidIndices(regFileCall.before)))
       => (regFileCall.err = RegisterFileError /\ intRegFile = regFileCall.before)

\* an array that is too long has been written at an index outside a file
\* that holds something, and the index was reported
C31_Witness ==
    /\ regFileCall.op = "write"
    /\ regFileCall.index \notin ValidIndices(regFileCall.before)
    /\ Len(regFileCall.value) > regFileCall.before.byteWidth
    /\ regFileCall.err = RegisterFileError
    /\ intRegFile.data # Fill(Len(intRegFile.data), 0)

\* the unsigned integer the bytes of a register spell in the byte order of
\* the file
BytesInteger(bytes, endianness) ==
    PatternNumber(IF endianness = "little" THEN Reversed(bytes) ELSE bytes)

(***************************************************************************)
(* C32: the PC slot of an IntRegFile is always a valid register index, and *)
(* setPC / getPC and setPCValue / getPCValue read and write exactly that   *)
(* slot: after setPC(b) with width/8 bytes getPC() returns b, getPCValue() *)
(* returns the unsigned integer of b in the byte order of the file and no  *)
(* other register has changed; after setPCValue(v) getPCValue() returns v  *)
(* and no other register has changed.                                      *)
(***************************************************************************)
C32_PCSlot ==
    /\ regFileCall.op \in {"setPC", "getPC", "setPCValue", "getPCValue"}
       => intRegFile.pcIndex \in ValidIndices(intRegFile)
    /\ (regFileCall.op = "setPC"
        /\ Len(regFileCall.value) = regFileCall.before.byteWidth)
       => /\ regFileCall.err = NoError
          /\ getPC(intRegFile) = [err |-> NoError, data |-> regFileCall.value]
          /\ getPCValue(intRegFile) =
                [err |-> NoError,
                 value |-> BytesInteger(regFileCall.value, intRegFile.endianness)]
          /\ OnlyRegisterChanged(intRegFile.pcIndex)
    /\ regFileCall.op = "setPCValue"
       => /\ regFileCall.err = NoError
          /\ getPCValue(intRegFile) = [err |-> NoError, value |-> regFileCall.value]
          /\ OnlyRegisterChanged(intRegFile.pcIndex)

\* the start of the default-size block that holds an address
AlignedStart(address) == address - (address % defaultMemRegionSize)

\* no region of the list holds the byte at address
Uncovered(regions, address) == ~SomeRegionContains(regions, address, 1)

\* the regions that end at or below address, less than limit bytes below it
EndingBelow(regions, address, limit) ==
    {i \in 1 .. Len(regions) :
        /\ RegionEnd(regions[i]) <= address
        /\ address - RegionEnd(regions[i]) < limit}

\* the closest of them
ClosestBelow(regions, address, limit) ==
    CHOOSE i \in EndingBelow(regions, address, limit) :
        \A j \in EndingBelow(regions, address, limit) :
            RegionEnd(regions[j]) <= RegionEnd(regions[i])

\* addresses a region of the list may cover
FarAddrs == 0 .. (MaxAddr + MaxRegionSize)

\* the last call was an aligned write of a legal width to an address inside
\* the memory bounds that no region covered
WriteMisses ==
    /\ AlignedCall("write")
    /\ AddressInMemory(lastCall.address)
    /\ Uncovered(lastCall.before, lastCall.address)

(***************************************************************************)
(* C33: when write(addr, size, data) targets an address covered by no      *)
(* region and the closest region ending at or below addr, less than        *)
(* defaultRegionSize below it, is resizable, the write succeeds, adds no   *)
(* region, leaves that region starting where it started and ending at      *)
(* alignedStart + defaultRegionSize (alignedStart = addr with its low      *)
(* log2(defaultRegionSize) bits cleared), keeps the bytes the region held, *)
(* and read(addr, size) returns data.                                      *)
(***************************************************************************)
C33_ResizeClosest ==
    (/\ WriteMisses
     /\ EndingBelow(lastCall.before, lastCall.address, defaultMemRegionSize) # {}
     /\ lastCall.before[ClosestBelow(lastCall.before, lastCall.address,
                                     defaultMemRegionSize)].resizable)
    => LET i == ClosestBelow(lastCall.before, lastCall.address, defaultMemRegionSize)
           old == lastCall.before[i]
       IN  /\ lastCall.err = NoError
           /\ Len(memoryRegions) = Len(lastCall.before)
           /\ memoryRegions[i].regionStart = old.regionStart
           /\ RegionEnd(memoryRegions[i]) =
                  AlignedStart(lastCall.address) + defaultMemRegionSize
           /\ \A x \in old.regionStart .. (RegionEnd(old) - 1) :
                  ByteOf(memoryRegions, x) = ByteOf(lastCall.before, x)
           /\ ReadBack(lastCall.address, lastCall.size).err = NoError
           /\ ReadBack(lastCall.address, lastCall.size).data = lastCall.data

(***************************************************************************)
(* C34: when a write misses, no region ends close below the address, and   *)
(* the far end alignedStart + defaultRegionSize of the new region falls    *)
(* inside an existing region e, the write succeeds and read(addr, size)    *)
(* returns the data; if e is mergeable one region starting at alignedStart *)
(* then covers both ranges and takes the place of e, the bytes of e        *)
(* reading back unchanged at their addresses; if e is not mergeable a new  *)
(* region from alignedStart to e.regionStart stands immediately before e   *)
(* and e is untouched.                                                     *)
(***************************************************************************)
C34_ShrinkBelowRegion ==
    (/\ WriteMisses
     /\ EndingBelow(lastCall.before, lastCall.address, defaultMemRegionSize) = {})
    => \A k \in 1 .. Len(lastCall.before) :
        LET e == lastCall.before[k]
            alignedStart == AlignedStart(lastCall.address)
        IN  Contains(e, alignedStart + defaultMemRegionSize, 1)
            => /\ lastCall.err = NoError
               /\ ReadBack(lastCall.address, lastCall.size).err = NoError
               /\ ReadBack(lastCall.address, lastCall.size).data = lastCall.data
               /\ IF e.mergeable
                  THEN /\ Len(memoryRegions) = Len(lastCall.before)
                       /\ memoryRegions[k].regionStart = alignedStart
                       /\ RegionEnd(memoryRegions[k]) = RegionEnd(e)
                       /\ \A x \in e.regionStart .. (RegionEnd(e) - 1) :
                              ByteOf(memoryRegions, x) = ByteOf(lastCall.before, x)
                  ELSE /\ Len(memoryRegions) = Len(lastCall.before) + 1
                       /\ memoryRegions[k].regionStart = alignedStart
                       /\ RegionEnd(memoryRegions[k]) = e.regionStart
                       /\ memoryRegions[k + 1] = e

C36_WriteFrame ==
    (lastCall.op = "write" /\ lastCall.err = NoError)
    => \A x \in FarAddrs, dev \in DeviceBytes :
        LET was == MemoryRead(lastCall.before, x, 1, dev)
            is == MemoryRead(memoryRegions, x, 1, dev)
        IN  (/\ (x < lastCall.address \/ x >= lastCall.address + lastCall.size)
             /\ was.err = NoError)
            => (is.err = NoError /\ is.data = was.data)

\* a write has put a new region in front of a region that held a byte, the
\* two were merged, and that byte is still read at its address
C36_Witness ==
    /\ lastCall.op = "write"
    /\ lastCall.err = NoError
    /\ Len(memoryRegions) = Len(lastCall.before)
    /\ \E k \in 1 .. Len(memoryRegions) :
        /\ memoryRegions[k].regionStart < lastCall.before[k].regionStart
        /\ \E x \in FarAddrs :
            /\ Contains(lastCall.before[k], x, 1)
            /\ MemoryRead(lastCall.before, x, 1, 0).data = FirstByte
            /\ MemoryRead(memoryRegions, x, 1, 0).data = FirstByte

(***************************************************************************)
(* C37: whenever a write raises an error (MemoryError or RegionError), the *)
(* region list (number of regions, each regionStart and regionSize) and    *)
(* every stored byte are exactly as before the call.                       *)
(***************************************************************************)
C37_FailedWriteAtomic ==
    (lastCall.op = "write" /\ lastCall.err # NoError)
    => memoryRegions = lastCall.before

(***************************************************************************)
(* C38: after any sequence of addRegion and write calls every region of    *)
(* the list lies inside the memory bounds (memoryStart <= regionStart and  *)
(* regionStart + regionSize <= memoryStart + memorySize), and a write to   *)
(* an aligned address outside the memory bounds raises an error and        *)
(* allocates nothing.                                                      *)
(***************************************************************************)
C38_RegionsInBounds ==
    /\ \A i \in 1 .. Len(memoryRegions) : RegionInMemory(memoryRegions[i])
    /\ (AlignedCall("write") /\ ~AddressInMemory(lastCall.address))
       => (lastCall.err # NoError /\ memoryRegions = lastCall.before)

(***************************************************************************)
(* C39: an MMIO region that is in the list is still in it, with the same   *)
(* regionStart and regionSize, after every addRegion and every write,      *)
(* write-allocation next to it included; it is never resized, merged into, *)
(* absorbed or replaced, and its flags stay resizable = false,             *)
(* relocatable = false, mergeable = false.                                 *)
(***************************************************************************)
C39_MMIOStays ==
    /\ lastCall.op \in {"addMemoryRegion", "write"}
       => \A i \in 1 .. Len(lastCall.before) :
            lastCall.before[i].kind = "mmio"
            => \E j \in 1 .. Len(memoryRegions) : memoryRegions[j] = lastCall.before[i]
    /\ \A j \in 1 .. Len(memoryRegions) :
        memoryRegions[j].kind = "mmio"
        => /\ ~memoryRegions[j].resizable
           /\ ~memoryRegions[j].relocatable
           /\ ~memoryRegions[j].mergeable

\* a write that missed has allocated in front of an MMIO region: the far end
\* of its new region fell inside the MMIO region
C39_Witness ==
    /\ AlignedCall("write")
    /\ Uncovered(lastCall.before, lastCall.address)
    /\ \E i \in 1 .. Len(lastCall.before) :
        /\ lastCall.before[i].kind = "mmio"
        /\ lastCall.address < lastCall.before[i].regionStart
        /\ findRegion(lastCall.before,
                      BitAnd(lastCall.address, regionAlignMask) + defaultMemRegionSize,
                      1) = i
        /\ \E j \in 1 .. Len(memoryRegions) : memoryRegions[j] = lastCall.before[i]

\* how many of the three answers of the last comparison are true
TrueAnswers ==
    Cardinality({q \in {"isOverlap", "isLowerThan", "isHigherThan"} : regionCall[q]})

(***************************************************************************)
(* C40: for every pair of regions a, b exactly one of a.isOverlap(b),      *)
(* a.isLowerThan(b), a.isHigherThan(b) is true; isOverlap is symmetric and *)
(* equals a.regionStart < b.regionEnd and b.regionStart < a.regionEnd on   *)
(* the half-open intervals; and a.isLowerThan(b) = b.isHigherThan(a).      *)
(***************************************************************************)
C40_Trichotomy ==
    regionCall.op = "compare"
    => /\ TrueAnswers = 1
       /\ regionCall.isOverlap = isOverlap(regionCall.other, regionCall.this)
       /\ regionCall.isOverlap = Overlaps(regionCall.this, regionCall.other)
       /\ regionCall.isLowerThan = regionCall.otherIsHigherThan
       /\ regionCall.isHigherThan = regionCall.otherIsLowerThan

\* a region has been compared with one that starts where it ends: it is
\* lower, and the two do not overlap
C40_Witness ==
    /\ regionCall.op = "compare"
    /\ RegionEnd(regionCall.this) = regionCall.other.regionStart
    /\ regionCall.isLowerThan
    /\ ~regionCall.isOverlap
    /\ regionCall.otherIsHigherThan

====
